---- MODULE Spec2Model ----
(***************************************************************************)
(* State-machine model of the RGP enquiry backend: the JWT service         *)
(* (GenerateToken / ValidateToken / RefreshToken), the router's            *)
(* authentication gate, user creation and username derivation.             *)
(*                                                                         *)
(* Time is counted in whole seconds, the precision jwt.NumericDate keeps   *)
(* (NewNumericDate truncates to jwt.TimePrecision = 1s), so `clock` is the *)
(* floor of the wall clock; now.Before(exp) with a whole-second exp is     *)
(* then exactly clock < exp.                                               *)
(***************************************************************************)
EXTENDS Integers, Sequences, FiniteSets, TLC

VARIABLES
    clock,      \* floor of time.Now() in seconds
    issued,     \* the tokens the service has handed out, each with the
                \* claims it was signed over
    out,        \* the last operation of the token service / router and its result
    users,      \* UsersCollection: sequence of stored user documents
    procs,      \* in-flight UserService.CreateUser calls, one per request
    email,      \* input of User.GenerateUsernameFromEmail
    derived,    \* its result, or NotRun before the call
    enquiries   \* Collection: the stored enquiry documents, in insertion order

vars == <<clock, issued, out, users, procs, email, derived, enquiries>>

\* ------------------------------------------------------------------------
\* Bounds
\* ------------------------------------------------------------------------
MaxTokens == 2    \* tokens handed out in one behaviour
MaxSkew == 1      \* seconds the clock may advance between two reads in one call
MaxJitter == 1    \* seconds around each expiry instant that the clock visits

\* ------------------------------------------------------------------------
\* models/user.go: roles
\* ------------------------------------------------------------------------
RoleAdmin == "admin"
RoleSuperAdmin == "super-admin"
\* role strings outside the enum (UserRole is a plain string type)
OtherRoles == {"viewer", ""}
RoleStrings == {RoleAdmin, RoleSuperAdmin} \cup OtherRoles

\* ------------------------------------------------------------------------
\* services/jwt_service.go (src/unnamed/part_002, second file)
\* ------------------------------------------------------------------------
Hour == 60 * 60
AdminTTL == 48 * Hour
SuperAdminTTL == 30 * 24 * Hour

Issuer == "rgp-backend-enquiry"
SecretKey == "secret"      \* JWTService.secretKey
OtherKey == "other-secret" \* any key that is not the service's

\* primitive.ObjectID.Hex(): the id rendered as a string
Hex(id) == <<"hex", id>>

\* a field left out of the JSON payload by `omitempty`
Absent == "absent"

\* users GenerateToken is called with: stored users carry admin or
\* super-admin, but the function accepts any models.User
TokenUsers ==
    { [ID |-> 1, Email |-> "a@x.com", Username |-> "auser", Role |-> RoleAdmin],
      [ID |-> 2, Email |-> "root@x.com", Username |-> "root", Role |-> RoleSuperAdmin],
      [ID |-> 3, Email |-> "v@x.com", Username |-> "vuser", Role |-> "viewer"],
      [ID |-> 4, Email |-> "", Username |-> "", Role |-> ""] }

\* the switch of GenerateToken: the lifetime for a role, NoTTL for `default`
NoTTL == -1
\* a switch whose default case issues a token like the admin case
GenerateTTLAnyRole(role) ==
    CASE role = RoleSuperAdmin -> SuperAdminTTL
      [] OTHER -> AdminTTL

GenerateTTL(role) ==
    CASE role = RoleAdmin -> AdminTTL
      [] role = RoleSuperAdmin -> SuperAdminTTL
      [] OTHER -> NoTTL

\* the same switch, written a second time in RefreshToken
RefreshTTL(role) ==
    CASE role = RoleAdmin -> AdminTTL
      [] role = RoleSuperAdmin -> SuperAdminTTL
      [] OTHER -> NoTTL

\* GetTokenExpiration: the display helper, 24h for unknown roles
GetTokenExpiration(role) ==
    CASE role = RoleAdmin -> AdminTTL
      [] role = RoleSuperAdmin -> SuperAdminTTL
      [] OTHER -> 24 * Hour

\* json.Marshal of Claims: the custom fields are always written, the
\* RegisteredClaims fields carry `omitempty`
MarshalClaims(c) ==
    [user_id  |-> c.UserID,
     email    |-> c.Email,
     username |-> c.Username,
     role     |-> c.Role,
     iss      |-> IF c.Issuer = "" THEN Absent ELSE c.Issuer,
     sub      |-> IF c.Subject = "" THEN Absent ELSE c.Subject,
     exp      |-> c.ExpiresAt,
     nbf      |-> c.NotBefore,
     iat      |-> c.IssuedAt]

\* a decoder that fills Username from the email member
UnmarshalClaimsCrossed(p) ==
    [UserID    |-> p.user_id,
     Email     |-> p.email,
     Username  |-> p.email,
     Role      |-> p.role,
     Issuer    |-> IF p.iss = Absent THEN "" ELSE p.iss,
     Subject   |-> IF p.sub = Absent THEN "" ELSE p.sub,
     ExpiresAt |-> p.exp,
     NotBefore |-> p.nbf,
     IssuedAt  |-> p.iat]

\* json.Unmarshal into Claims
UnmarshalClaims(p) ==
    [UserID    |-> p.user_id,
     Email     |-> p.email,
     Username  |-> p.username,
     Role      |-> p.role,
     Issuer    |-> IF p.iss = Absent THEN "" ELSE p.iss,
     Subject   |-> IF p.sub = Absent THEN "" ELSE p.sub,
     ExpiresAt |-> p.exp,
     NotBefore |-> p.nbf,
     IssuedAt  |-> p.iat]

\* HMAC over "header.payload": an ideal MAC, equal only for equal key and text
Sign(key, header, payload) == [key |-> key, text |-> <<header, payload>>]

\* jwt.NewWithClaims(method, claims) then token.SignedString(key)
SignedString(alg, claims, key) ==
    LET header == [alg |-> alg, typ |-> "JWT"]
        payload == MarshalClaims(claims)
    IN [wellFormed |-> TRUE, header |-> header, payload |-> payload,
        sig |-> Sign(key, header, payload)]

\* a string that does not split into three base64/JSON segments; the
\* fields other than wellFormed are never read
Garbage ==
    LET header == [alg |-> "", typ |-> ""]
        payload == [user_id |-> Hex(0), email |-> "", username |-> "", role |-> "",
                    iss |-> Absent, sub |-> Absent, exp |-> 0, nbf |-> 0, iat |-> 0]
    IN [wellFormed |-> FALSE, header |-> header, payload |-> payload,
        sig |-> Sign("", header, payload)]

\* a keyfunc that also lets the "none" algorithm through
IsHMACOrNone(alg) == alg \in {"HS256", "HS384", "HS512", "none"}

\* token.Method.(*jwt.SigningMethodHMAC): HS256, HS384 and HS512
IsHMAC(alg) == alg \in {"HS256", "HS384", "HS512"}

\* errors of jwt.ParseWithClaims, returned unchanged by ValidateToken
NoErr == "nil"
ErrTokenMalformed == "token is malformed"
ErrTokenUnverifiable == "token is unverifiable: unexpected signing method"
ErrTokenSignatureInvalid == "token signature is invalid"
ErrTokenExpired == "token has invalid claims: token is expired"
ErrTokenNotValidYet == "token has invalid claims: token is not valid yet"
ErrTokenExpiredNotValidYet ==
    "token has invalid claims: token is expired, token is not valid yet"
ErrInvalidRole == "invalid user role"

NoClaims == "nil"

\* a validator for which the expiry instant itself is still valid
ClaimsErrInclusive(c, now) ==
    LET expired == now > c.ExpiresAt
        early == now < c.NotBefore
    IN CASE expired /\ early -> ErrTokenExpiredNotValidYet
         [] expired -> ErrTokenExpired
         [] early -> ErrTokenNotValidYet
         [] OTHER -> NoErr

\* jwt.Validator: exp passes iff now.Before(exp), nbf passes iff !now.Before(nbf);
\* iat is not verified by default
ClaimsErr(c, now) ==
    LET expired == ~(now < c.ExpiresAt)
        early == now < c.NotBefore
    IN CASE expired /\ early -> ErrTokenExpiredNotValidYet
         [] expired -> ErrTokenExpired
         [] early -> ErrTokenNotValidYet
         [] OTHER -> NoErr

\* a service that accepts only a user's latest token: a token is rejected
\* once a token issued later to the same user has been handed out
ValidateLatestOnly(tok, now) ==
    IF ~tok.wellFormed THEN [err |-> ErrTokenMalformed, claims |-> NoClaims]
    ELSE IF ~IsHMAC(tok.header.alg)
    THEN [err |-> ErrTokenUnverifiable, claims |-> NoClaims]
    ELSE IF tok.sig # Sign(SecretKey, tok.header, tok.payload)
    THEN [err |-> ErrTokenSignatureInvalid, claims |-> NoClaims]
    ELSE LET c == UnmarshalClaims(tok.payload)
             e == ClaimsErr(c, now)
             superseded == \E h \in issued : /\ h.claims.UserID = c.UserID
                                             /\ h.claims.IssuedAt > c.IssuedAt
         IN IF e # NoErr THEN [err |-> e, claims |-> NoClaims]
            ELSE IF superseded THEN [err |-> ErrTokenExpired, claims |-> NoClaims]
            ELSE [err |-> NoErr, claims |-> c]

\* a service that looks the token's user up: the token is rejected unless
\* a stored, active user has its e-mail and its role
ValidateStoredUser(tok, now) ==
    IF ~tok.wellFormed THEN [err |-> ErrTokenMalformed, claims |-> NoClaims]
    ELSE IF ~IsHMAC(tok.header.alg)
    THEN [err |-> ErrTokenUnverifiable, claims |-> NoClaims]
    ELSE IF tok.sig # Sign(SecretKey, tok.header, tok.payload)
    THEN [err |-> ErrTokenSignatureInvalid, claims |-> NoClaims]
    ELSE LET c == UnmarshalClaims(tok.payload)
             e == ClaimsErr(c, now)
             stored == \E i \in DOMAIN users : /\ users[i].Email = c.Email
                                               /\ users[i].IsActive
                                               /\ users[i].Role = c.Role
         IN IF e # NoErr THEN [err |-> e, claims |-> NoClaims]
            ELSE IF ~stored THEN [err |-> ErrTokenExpired, claims |-> NoClaims]
            ELSE [err |-> NoErr, claims |-> c]

\* JWTService.ValidateToken at time `now`: parse, keyfunc (HMAC family
\* check), signature, then the registered-claims time checks
ValidateToken(tok, now) ==
    IF ~tok.wellFormed THEN [err |-> ErrTokenMalformed, claims |-> NoClaims]
    ELSE IF ~IsHMAC(tok.header.alg)
    THEN [err |-> ErrTokenUnverifiable, claims |-> NoClaims]
    ELSE IF tok.sig # Sign(SecretKey, tok.header, tok.payload)
    THEN [err |-> ErrTokenSignatureInvalid, claims |-> NoClaims]
    ELSE LET c == UnmarshalClaims(tok.payload)
             e == ClaimsErr(c, now)
         IN IF e # NoErr THEN [err |-> e, claims |-> NoClaims]
            ELSE [err |-> NoErr, claims |-> c]

NoToken == "none"

\* JWTService.GenerateToken: time.Now() is read three times, t1 for the
\* expiration, t2 for IssuedAt, t3 for NotBefore
GenerateClaims(user, t1, t2, t3) ==
    [UserID    |-> Hex(user.ID),
     Email     |-> user.Email,
     Username  |-> user.Username,
     Role      |-> user.Role,
     ExpiresAt |-> t1 + GenerateTTL(user.Role),
     IssuedAt  |-> t2,
     NotBefore |-> t3,
     Issuer    |-> Issuer,
     Subject   |-> Hex(user.ID)]

GenerateTokenResult(user, t1, t2, t3) ==
    IF GenerateTTL(user.Role) = NoTTL
    THEN [err |-> ErrInvalidRole, token |-> NoToken, claims |-> NoClaims]
    ELSE LET c == GenerateClaims(user, t1, t2, t3)
         IN [err |-> NoErr, token |-> SignedString("HS256", c, SecretKey),
             claims |-> c]

\* JWTService.RefreshToken: ValidateToken at time t0, then the role switch
\* on the decoded claims, then three more clock reads
RefreshClaims(c, t1, t2, t3) ==
    [c EXCEPT !.ExpiresAt = t1 + RefreshTTL(c.Role),
              !.IssuedAt = t2,
              !.NotBefore = t3]

RefreshTokenResult(tok, t0, t1, t2, t3) ==
    LET v == ValidateToken(tok, t0)
    IN IF v.err # NoErr
       THEN [err |-> v.err, token |-> NoToken, claims |-> NoClaims]
       ELSE IF RefreshTTL(v.claims.Role) = NoTTL
       THEN [err |-> ErrInvalidRole, token |-> NoToken, claims |-> NoClaims]
       ELSE LET c == RefreshClaims(v.claims, t1, t2, t3)
            IN [err |-> NoErr, token |-> SignedString("HS256", c, SecretKey),
                claims |-> c]

\* ------------------------------------------------------------------------
\* routes/routes.go: the route table of SetupRoutes, in registration order.
\* A route with path Any carries no path matcher.
\* ------------------------------------------------------------------------
AnyPath == "*"
Routes ==
    << [method |-> "OPTIONS", path |-> AnyPath, handler |-> "Options"],
       [method |-> "GET", path |-> "/", handler |-> "GetRoot"],
       [method |-> "POST", path |-> "/enquiry", handler |-> "CreateEnquiry"],
       [method |-> "POST", path |-> "/create-user", handler |-> "CreateUser"],
       [method |-> "POST", path |-> "/auth/signin", handler |-> "SignIn"],
       [method |-> "POST", path |-> "/auth/login", handler |-> "AuthenticateUser"],
       [method |-> "GET", path |-> "/email/test", handler |-> "SendTestEmail"],
       [method |-> "POST", path |-> "/email/send", handler |-> "SendEmail"],
       [method |-> "GET", path |-> "/enquiries", handler |-> "GetAllEnquiries"],
       [method |-> "GET", path |-> "/enquiries/{id}", handler |-> "GetEnquiryByID"],
       [method |-> "GET", path |-> "/users", handler |-> "GetAllUsers"],
       [method |-> "GET", path |-> "/users/{id}", handler |-> "GetUser"],
       [method |-> "PUT", path |-> "/users/{id}", handler |-> "UpdateUser"],
       [method |-> "DELETE", path |-> "/users/{id}", handler |-> "DeleteUser"],
       [method |-> "GET", path |-> "/health", handler |-> "Health"] >>

\* request paths (r.URL.Path) and the mux template each one matches
Paths ==
    {"/", "/enquiry", "/create-user", "/auth/signin", "/auth/login", "/health",
     "/email/test", "/email/send", "/enquiries", "/enquiries/64f0", "/users",
     "/users/64f0", "/nope"}
Methods == {"GET", "POST", "PUT", "DELETE", "OPTIONS"}

Template(path) ==
    CASE path = "/enquiries/64f0" -> "/enquiries/{id}"
      [] path = "/users/64f0" -> "/users/{id}"
      [] OTHER -> path

RouteMatches(route, method, path) ==
    /\ route.method = method
    /\ route.path = AnyPath \/ route.path = Template(path)

\* mux.Router.Match: the first route whose matchers all accept the request
NoRoute == 0
MatchRoute(method, path) ==
    LET hits == {i \in DOMAIN Routes : RouteMatches(Routes[i], method, path)}
    IN IF hits = {} THEN NoRoute
       ELSE CHOOSE i \in hits : \A j \in hits : i <= j

\* the public allow-list of the authentication gate
PublicPaths ==
    {"/", "/enquiry", "/create-user", "/auth/signin", "/auth/login", "/health"}

\* the Authorization header: a scheme prefix followed by the credential;
\* NoHeader, with the empty prefix, when Header.Get returns ""
NoHeader == [scheme |-> "", cred |-> Garbage]
BearerPrefix == "Bearer "
AuthSchemes == {BearerPrefix, "Basic ", "bearer "}

\* strings.HasPrefix(authHeader, "Bearer ")
HasBearerPrefix(h) == h.scheme = BearerPrefix

\* the request context value "user_role": NoRole when never attached
NoRole == "<no user_role>"

\* a response written by a handler whose body is not part of this operator
HandlerAnswers == 0

\* controllers/enquiry_controller.go GetAllEnquiries: 500 when the service
\* call fails, 200 otherwise
GetAllEnquiriesStatus(storeOk) == IF storeOk THEN 200 ELSE 500

\* controllers/user_controller.go GetAllUsers
GetAllUsersStatus(storeOk) == IF storeOk THEN 200 ELSE 500

HandlerStatus(handler, storeOk) ==
    CASE handler = "GetAllEnquiries" -> GetAllEnquiriesStatus(storeOk)
      [] handler = "GetAllUsers" -> GetAllUsersStatus(storeOk)
      [] handler \in {"GetUser", "UpdateUser", "DeleteUser"} -> 405
      [] handler \in {"Health", "Options"} -> 200
      [] OTHER -> HandlerAnswers

Answer(by, status, msg, handler) ==
    [by |-> by, status |-> status, message |-> msg, handler |-> handler]
NoHandler == "none"

\* the route handler itself, reached through LoggingMiddleware and
\* SecurityMiddleware, which always call next
RunHandler(handler, storeOk) ==
    Answer("handler", HandlerStatus(handler, storeOk), "", handler)

\* middleware.CorsMiddleware (installed by app.NewApp after SetupRoutes, so
\* it runs inside the gate): answers a preflight itself
CorsMiddleware(method, handler, storeOk) ==
    IF method = "OPTIONS"
    THEN Answer("CorsMiddleware", 200, "", NoHandler)
    ELSE RunHandler(handler, storeOk)

\* a role check that lets every role found in the context through
AnyRoleMiddleware(ctxRole, method, handler, storeOk) ==
    IF ctxRole = NoRole
    THEN Answer("AdminOrSuperAdminMiddleware", 500,
                "User role not found in context", NoHandler)
    ELSE CorsMiddleware(method, handler, storeOk)

\* middleware.AdminOrSuperAdminMiddleware over the role found in the context
AdminOrSuperAdminMiddleware(ctxRole, method, handler, storeOk) ==
    IF ctxRole = NoRole
    THEN Answer("AdminOrSuperAdminMiddleware", 500,
                "User role not found in context", NoHandler)
    ELSE IF ctxRole # RoleAdmin /\ ctxRole # RoleSuperAdmin
    THEN Answer("AdminOrSuperAdminMiddleware", 403,
                "Insufficient permissions", NoHandler)
    ELSE CorsMiddleware(method, handler, storeOk)

\* a role check that lets only the required role through
RoleMiddlewareExact(requiredRole, ctxRole, method, handler, storeOk) ==
    IF ctxRole = NoRole
    THEN Answer("RoleMiddleware", 500, "User role not found in context", NoHandler)
    ELSE IF ctxRole # requiredRole
    THEN Answer("RoleMiddleware", 403, "Insufficient permissions", NoHandler)
    ELSE CorsMiddleware(method, handler, storeOk)

\* middleware.RoleMiddleware(requiredRole) over the role found in the
\* context (no route of SetupRoutes installs it)
RoleMiddleware(requiredRole, ctxRole, method, handler, storeOk) ==
    IF ctxRole = NoRole
    THEN Answer("RoleMiddleware", 500, "User role not found in context", NoHandler)
    ELSE IF ctxRole # requiredRole /\ ctxRole # RoleSuperAdmin
    THEN Answer("RoleMiddleware", 403, "Insufficient permissions", NoHandler)
    ELSE CorsMiddleware(method, handler, storeOk)

\* middleware.AuthMiddleware wrapped around the role check
AuthMiddleware(header, now, method, handler, storeOk) ==
    IF header.scheme = ""
    THEN Answer("AuthMiddleware", 401, "Authorization header missing", NoHandler)
    ELSE IF ~HasBearerPrefix(header)
    THEN Answer("AuthMiddleware", 401, "Invalid authorization format", NoHandler)
    ELSE LET v == ValidateToken(header.cred, now)
         IN IF v.err # NoErr
            THEN Answer("AuthMiddleware", 401, "Invalid token", NoHandler)
            ELSE AdminOrSuperAdminMiddleware(v.claims.Role, method, handler, storeOk)

\* a gate whose allow-list also holds the two email routes
GateEmailPublic(method, path, header, now, handler, storeOk) ==
    IF method = "OPTIONS" THEN CorsMiddleware(method, handler, storeOk)
    ELSE IF path \in PublicPaths \cup {"/email/test", "/email/send"}
    THEN CorsMiddleware(method, handler, storeOk)
    ELSE AuthMiddleware(header, now, method, handler, storeOk)

\* a gate composed the other way round: the role check runs on the request
\* as it arrived, before any role was attached
GateRoleFirst(method, path, header, now, handler, storeOk) ==
    IF method = "OPTIONS" THEN CorsMiddleware(method, handler, storeOk)
    ELSE IF path \in PublicPaths THEN CorsMiddleware(method, handler, storeOk)
    ELSE IF AdminOrSuperAdminMiddleware(NoRole, method, handler, storeOk).by
               = "AdminOrSuperAdminMiddleware"
    THEN AdminOrSuperAdminMiddleware(NoRole, method, handler, storeOk)
    ELSE AuthMiddleware(header, now, method, handler, storeOk)

\* the closure SetupRoutes hands to router.Use: the outermost middleware
Gate(method, path, header, now, handler, storeOk) ==
    IF method = "OPTIONS" THEN CorsMiddleware(method, handler, storeOk)
    ELSE IF path \in PublicPaths THEN CorsMiddleware(method, handler, storeOk)
    ELSE AuthMiddleware(header, now, method, handler, storeOk)

\* Router.ServeHTTP for a request that matches a route
ServeHTTP(method, path, header, now, storeOk) ==
    Gate(method, path, header, now,
         Routes[MatchRoute(method, path)].handler, storeOk)

\* ------------------------------------------------------------------------
\* Tokens that reach the service from outside
\* ------------------------------------------------------------------------
CraftedClaims(role, nbf) ==
    [UserID |-> Hex(9), Email |-> "m@x.com", Username |-> "mallory",
     Role |-> role, ExpiresAt |-> AdminTTL, IssuedAt |-> 0, NotBefore |-> nbf,
     Issuer |-> Issuer, Subject |-> Hex(9)]

\* a token whose payload was edited after signing
Tampered(tok, role) == [tok EXCEPT !.payload.role = role]

\* the instant at which the not-yet-valid token becomes valid
LateStart == MaxSkew + 1

CraftedTokens ==
    { Garbage,
      SignedString("HS256", CraftedClaims("viewer", 0), SecretKey),
      SignedString("HS256", CraftedClaims("", 0), SecretKey),
      SignedString("HS256", CraftedClaims(RoleAdmin, 0), OtherKey),
      SignedString("RS256", CraftedClaims(RoleAdmin, 0), SecretKey),
      SignedString("none", CraftedClaims(RoleAdmin, 0), SecretKey),
      SignedString("HS512", CraftedClaims(RoleAdmin, 0), SecretKey),
      SignedString("HS256", CraftedClaims(RoleAdmin, LateStart), SecretKey),
      Tampered(SignedString("HS256", CraftedClaims(RoleAdmin, 0), SecretKey),
               RoleSuperAdmin) }

\* ------------------------------------------------------------------------
\* State machine of the token service
\* ------------------------------------------------------------------------
NotRun == [ran |-> FALSE, username |-> <<>>]
Idle == [op |-> "none"]

IssuedTokens == {h.token : h \in issued}

\* the instants at which some handed-out token expires
Expiries == {h.claims.ExpiresAt : h \in issued}

\* the wall clock advances: second by second until the late token is
\* valid, afterwards only the seconds next to an expiry are visited
Tick ==
    /\ \/ /\ clock < LateStart
          /\ clock' = clock + 1
       \/ \E e \in Expiries : \E k \in -MaxJitter..MaxJitter :
             /\ e + k > clock
             /\ clock' = e + k
    /\ out' = Idle
    /\ UNCHANGED <<issued, users, procs, email, derived, enquiries>>

\* the three time.Now() reads of one call, the first at t1: each read is at
\* or after the previous one, and the call lasts at most MaxSkew seconds
Reads(t1) ==
    {<<t1, t2, t3>> : t2 \in t1..t1 + MaxSkew, t3 \in t1..t1 + MaxSkew} \cap
    {r \in {t1} \X (t1..t1 + MaxSkew) \X (t1..t1 + MaxSkew) : r[2] <= r[3]}

\* the instants the run visits: the first seconds, and the seconds around
\* the expiry of a followed token
Instants ==
    (0..LateStart) \cup
    {e + k : e \in Expiries, k \in -MaxJitter..MaxJitter}

\* a call that fails returns before its first read; a call that succeeds
\* ends at a visited instant
ReadsOf(failed, t1) ==
    IF failed THEN {<<t1, t1, t1>>} ELSE {r \in Reads(t1) : r[3] \in Instants}

\* the result of the last call is taken by its caller; calls are observed
\* one at a time (the token service and the gate keep no state between them)
Return ==
    /\ out # Idle
    /\ out' = Idle
    /\ UNCHANGED <<clock, issued, users, procs, email, derived, enquiries>>

\* the caller keeps the token it was returned. The tokens followed through
\* the rest of the run are those of the calls made at time 0, up to
\* MaxTokens of them; a later call returns its token all the same
HandOut(res) ==
    IF res.err = NoErr /\ clock = 0 /\ Cardinality(issued) < MaxTokens
    THEN issued' = issued \cup {[token |-> res.token, claims |-> res.claims]}
    ELSE UNCHANGED issued

GenerateToken ==
    /\ out = Idle
    /\ \E user \in TokenUsers :
          \E r \in ReadsOf(GenerateTTL(user.Role) = NoTTL, clock) :
             LET res == GenerateTokenResult(user, r[1], r[2], r[3])
             IN /\ HandOut(res)
                /\ clock' = r[3]
                /\ out' = [op |-> "GenerateToken", user |-> user, t1 |-> r[1],
                           t2 |-> r[2], t3 |-> r[3], res |-> res]
    /\ UNCHANGED <<users, procs, email, derived, enquiries>>

Validate ==
    /\ out = Idle
    /\ \E tok \in IssuedTokens \cup CraftedTokens :
          out' = [op |-> "ValidateToken", token |-> tok, now |-> clock,
                  res |-> ValidateToken(tok, clock)]
    /\ UNCHANGED <<clock, issued, users, procs, email, derived, enquiries>>

\* whether RefreshToken returns an error for a token presented at time now
RefreshFails(tok, now) == RefreshTokenResult(tok, now, now, now, now).err # NoErr

\* RefreshToken validates at the entry time, then reads the clock three times
RefreshToken ==
    /\ out = Idle
    /\ \E tok \in IssuedTokens \cup CraftedTokens :
          \E r \in ReadsOf(RefreshFails(tok, clock), clock) :
             LET res == RefreshTokenResult(tok, clock, r[1], r[2], r[3])
             IN /\ HandOut(res)
                /\ clock' = r[3]
                /\ out' = [op |-> "RefreshToken", token |-> tok, t0 |-> clock,
                           t1 |-> r[1], t2 |-> r[2], t3 |-> r[3], res |-> res]
    /\ UNCHANGED <<users, procs, email, derived, enquiries>>

\* a client presents a token it was handed to a protected route
BearerRequest ==
    /\ out = Idle
    /\ \E tok \in IssuedTokens :
          LET header == [scheme |-> BearerPrefix, cred |-> tok]
          IN out' = [op |-> "ServeHTTP", method |-> "GET", path |-> "/enquiries",
                     header |-> header, now |-> clock, storeOk |-> TRUE,
                     res |-> ServeHTTP("GET", "/enquiries", header, clock, TRUE)]
    /\ UNCHANGED <<clock, issued, users, procs, email, derived, enquiries>>

InitRest ==
    /\ users = <<>>
    /\ procs = <<>>
    /\ email = <<>>
    /\ derived = NotRun
    /\ enquiries = <<>>

InitToken ==
    /\ clock = 0
    /\ issued = {}
    /\ out = Idle
    /\ InitRest

NextToken ==
    Tick \/ GenerateToken \/ Validate \/ RefreshToken \/ BearerRequest \/ Return

SpecToken == InitToken /\ [][NextToken]_vars

\* ------------------------------------------------------------------------
\* State machine of the router: requests against the composed handler chain
\* ------------------------------------------------------------------------
\* the tokens two sign-ins at time 0 returned, one per role
SignedInAt0 ==
    {[token |-> GenerateTokenResult(u, 0, 0, 0).token,
      claims |-> GenerateTokenResult(u, 0, 0, 0).claims] :
        u \in {v \in TokenUsers : GenerateTTL(v.Role) # NoTTL}}

Headers ==
    {NoHeader}
    \cup {[scheme |-> BearerPrefix, cred |-> t] : t \in IssuedTokens \cup CraftedTokens}
    \cup {[scheme |-> sch, cred |-> t] :
            sch \in AuthSchemes \ {BearerPrefix}, t \in IssuedTokens}

\* one HTTP request that matches a route, served to completion
Request ==
    /\ out = Idle
    /\ \E method \in Methods : \E path \in Paths :
          \E header \in Headers : \E storeOk \in BOOLEAN :
             /\ MatchRoute(method, path) # NoRoute
             /\ out' = [op |-> "ServeHTTP", method |-> method, path |-> path,
                        header |-> header, now |-> clock, storeOk |-> storeOk,
                        res |-> ServeHTTP(method, path, header, clock, storeOk)]
    /\ UNCHANGED <<clock, issued, users, procs, email, derived, enquiries>>

InitGate ==
    /\ clock = 0
    /\ issued = SignedInAt0
    /\ out = Idle
    /\ InitRest

NextGate == Tick \/ Request \/ Validate \/ Return

SpecGate == InitGate /\ [][NextGate]_vars

\* ------------------------------------------------------------------------
\* Claims about the gate
\* ------------------------------------------------------------------------
Served == out.op = "ServeHTTP"
HandlerRan == out.res.by = "handler"

\* the request carries "Bearer <token>", the token passes ValidateToken at
\* the time of the request and its decoded role is admin or super-admin
AdminCredential ==
    /\ out.header.scheme = BearerPrefix
    /\ ValidateToken(out.header.cred, out.now).err = NoErr
    /\ ValidateToken(out.header.cred, out.now).claims.Role
          \in {RoleAdmin, RoleSuperAdmin}

ProtectedRequest ==
    /\ Served
    /\ out.method # "OPTIONS"
    /\ out.path \notin PublicPaths

\* C2: on a protected path the gate answers 401 for a missing header, for
\* a scheme other than Bearer and for a bearer token that fails validation,
\* 403 for a token that validates with a role other than admin / super-admin,
\* and lets a valid admin token through to the handler (GET /enquiries then
\* answers 200 when its store calls succeed); a token that fails validation
\* is never answered 403.
C2_GateAnswers ==
    ProtectedRequest =>
        LET v == ValidateToken(out.header.cred, out.now)
            bearer == out.header.scheme = BearerPrefix
        IN /\ out.header.scheme = "" => out.res.status = 401
           /\ ~bearer => out.res.status = 401
           /\ bearer /\ v.err # NoErr => out.res.status = 401
           /\ bearer /\ v.err = NoErr
                 /\ v.claims.Role \notin {RoleAdmin, RoleSuperAdmin}
                 => out.res.status = 403
           /\ bearer /\ v.err = NoErr /\ v.claims.Role = RoleAdmin
                 => /\ HandlerRan
                    /\ out.path = "/enquiries" /\ out.storeOk
                          => out.res.status = 200
           /\ out.res.status = 403 => bearer /\ v.err = NoErr

\* C2 witness: a validly signed token with an unknown role is answered 403
C2_Witness ==
    /\ ProtectedRequest
    /\ out.path = "/enquiries"
    /\ out.header.scheme = BearerPrefix
    /\ ValidateToken(out.header.cred, out.now).err = NoErr
    /\ ValidateToken(out.header.cred, out.now).claims.Role = "viewer"
    /\ out.res.status = 403

\* ------------------------------------------------------------------------
\* Claims about the token service
\* ------------------------------------------------------------------------
Generated == out.op = "GenerateToken"
Validated == out.op = "ValidateToken"
Refreshed == out.op = "RefreshToken"

\* C3 as stated: GenerateToken called at time t gives expires-at t + 48h
\* for admin and t + 720h for super-admin, with subject the user id and
\* issued-at and not-before both t; for any other role it fails with the
\* invalid-role error and produces no token.
C3_IssueAtT ==
    Generated =>
        LET t == out.t1
            c == out.res.claims
        IN /\ out.user.Role = RoleAdmin =>
                 out.res.err = NoErr /\ c.ExpiresAt = t + 48 * Hour
           /\ out.user.Role = RoleSuperAdmin =>
                 out.res.err = NoErr /\ c.ExpiresAt = t + 720 * Hour
           /\ out.user.Role \notin {RoleAdmin, RoleSuperAdmin} =>
                 out.res.err = ErrInvalidRole /\ out.res.token = NoToken
           /\ out.res.err = NoErr =>
                 /\ c.Subject = Hex(out.user.ID)
                 /\ c.IssuedAt = t
                 /\ c.NotBefore = t

\* C4: GenerateToken followed by ValidateToken under the same secret gives
\* back the claims that were encoded (user id, email, username, role,
\* subject, issuer, issued-at, not-before, expires-at), for admin and
\* super-admin users: right after the call, and whenever a later
\* ValidateToken of a handed-out token succeeds.
C4_RoundTrip ==
    /\ Generated /\ out.res.err = NoErr =>
          ValidateToken(out.res.token, clock) =
             [err |-> NoErr, claims |-> out.res.claims]
    /\ Validated /\ out.res.err = NoErr =>
          \A h \in issued : h.token = out.token => out.res.claims = h.claims

\* C4 witness: a super-admin token validated after it was handed out
C4_Witness ==
    /\ Validated
    /\ out.res.err = NoErr
    /\ out.res.claims.Role = RoleSuperAdmin
    /\ \E h \in issued : h.token = out.token /\ h.claims = out.res.claims

HandedOut(tok) == \E h \in issued : h.token = tok
ExpOf(tok) == CHOOSE e \in Expiries : \E h \in issued :
                 h.token = tok /\ h.claims.ExpiresAt = e

\* C5 as stated: a handed-out token validates at every time up to and
\* including its expiry instant t + D, and fails only at later times.
C5_AsStated ==
    Validated /\ HandedOut(out.token) =>
        /\ out.now <= ExpOf(out.token) => out.res.err = NoErr
        /\ out.now > ExpOf(out.token) => out.res.err # NoErr

ExpiredNow(h) == ValidateToken(h.token, clock).err # NoErr

\* C5 amended: a handed-out token validates at every time from its
\* issuance up to but not including its expires-at; at its expires-at and at
\* every later time ValidateToken fails (token is expired) and a request
\* bearing it to a protected path is answered 401; no step of the service
\* makes an expired token valid again.
C5_ValidUntilExpiry ==
    /\ [](Validated /\ HandedOut(out.token) =>
             /\ out.res.err = NoErr <=> out.now < ExpOf(out.token)
             /\ out.res.err # NoErr => out.res.err = ErrTokenExpired)
    /\ [](Served /\ HandedOut(out.header.cred) =>
             /\ out.now >= ExpOf(out.header.cred) => out.res.status = 401
             /\ out.now < ExpOf(out.header.cred) => HandlerRan)
    /\ [][\A h \in issued : ExpiredNow(h) => ExpiredNow(h)']_vars

\* C5 witness: an expired token presented to GET /enquiries is answered 401
C5_Witness ==
    /\ Served
    /\ HandedOut(out.header.cred)
    /\ out.now = ExpOf(out.header.cred)
    /\ out.res.status = 401

WellFormed(tok) == tok.wellFormed
HmacFamily(tok) == tok.header.alg \in {"HS256", "HS384", "HS512"}
SignatureVerifies(tok) == tok.sig = Sign(SecretKey, tok.header, tok.payload)
PastExpiry(tok, now) == now >= tok.payload.exp
BeforeNotBefore(tok, now) == now < tok.payload.nbf
FailsOnSignature(tok) ==
    WellFormed(tok) /\ HmacFamily(tok) /\ ~SignatureVerifies(tok)
FailsOnExpiry(tok, now) ==
    WellFormed(tok) /\ HmacFamily(tok) /\ SignatureVerifies(tok) /\ PastExpiry(tok, now)

KnownTokens == IssuedTokens \cup CraftedTokens

\* C6 as stated (the part that fails): a signature mismatch and an expiry
\* are reported with the same kind of failure and cannot be told apart.
C6_AsStated ==
    \A a \in KnownTokens : \A b \in KnownTokens :
        FailsOnSignature(a) /\ FailsOnExpiry(b, clock) =>
            ValidateToken(a, clock).err = ValidateToken(b, clock).err

\* C6 amended: ValidateToken fails exactly when the token cannot be parsed
\* (malformed), or its algorithm is not of the HMAC family (unverifiable:
\* unexpected signing method), or its signature does not verify under the
\* service key (signature invalid), or its expiry / not-before bound is
\* violated (expired / not valid yet), the first failing check in that order
\* deciding the error; it returns the parser's error unchanged, so a
\* signature mismatch and an expiry are different errors, and it is the
\* gate that answers every failure with the same 401 "Invalid token"; in all
\* other cases it returns the decoded claims.
C6_Classification ==
    /\ Validated =>
          LET tok == out.token
              e == out.res.err
          IN /\ e = ErrTokenMalformed <=> ~WellFormed(tok)
             /\ e = ErrTokenUnverifiable <=> WellFormed(tok) /\ ~HmacFamily(tok)
             /\ e = ErrTokenSignatureInvalid <=> FailsOnSignature(tok)
             /\ e \in {ErrTokenExpired, ErrTokenExpiredNotValidYet}
                   <=> FailsOnExpiry(tok, out.now)
             /\ e \in {ErrTokenNotValidYet, ErrTokenExpiredNotValidYet}
                   <=> /\ WellFormed(tok) /\ HmacFamily(tok)
                       /\ SignatureVerifies(tok) /\ BeforeNotBefore(tok, out.now)
             /\ e = NoErr => out.res.claims = UnmarshalClaims(tok.payload)
             /\ e # NoErr => out.res.claims = NoClaims
    /\ Served /\ out.method # "OPTIONS" /\ out.path \notin PublicPaths
          /\ out.header.scheme = BearerPrefix
          /\ ValidateToken(out.header.cred, out.now).err # NoErr
          => out.res.status = 401 /\ out.res.message = "Invalid token"

\* C6 witness: a token signed with another key, validated after its expiry,
\* is reported as a signature failure
C6_Witness ==
    /\ Validated
    /\ FailsOnSignature(out.token)
    /\ PastExpiry(out.token, out.now)
    /\ out.res.err = ErrTokenSignatureInvalid

\* C7 as stated: RefreshToken at time t fails with ValidateToken's failure
\* when the token does not validate; otherwise the new token carries the
\* same user id, email, username, role, subject and issuer, issued-at =
\* not-before = t and expires-at = t + 48h (admin) or t + 720h (super-admin);
\* a validated token with any other role makes it fail.
C7_RefreshAtT ==
    Refreshed =>
        LET v == ValidateToken(out.token, out.t0)
            t == out.t0
            c == out.res.claims
        IN /\ v.err # NoErr => out.res.err = v.err /\ out.res.token = NoToken
           /\ v.err = NoErr /\ v.claims.Role \notin {RoleAdmin, RoleSuperAdmin}
                 => out.res.err # NoErr /\ out.res.token = NoToken
           /\ v.err = NoErr /\ v.claims.Role \in {RoleAdmin, RoleSuperAdmin}
                 => /\ out.res.err = NoErr
                    /\ c.UserID = v.claims.UserID /\ c.Email = v.claims.Email
                    /\ c.Username = v.claims.Username /\ c.Role = v.claims.Role
                    /\ c.Subject = v.claims.Subject /\ c.Issuer = v.claims.Issuer
                    /\ c.IssuedAt = t /\ c.NotBefore = t
                    /\ c.ExpiresAt = t + (IF c.Role = RoleAdmin THEN 48 * Hour
                                                                ELSE 720 * Hour)

\* C8: the expiry of a handed-out token is fixed when it is issued: every
\* step leaves every handed-out token, and the expires-at it decodes to,
\* as they were; after RefreshToken of T both T and the new token validate
\* for as long as T's original expiry has not been reached.
C8_ExpiryImmutable ==
    /\ [](\A h \in issued :
             UnmarshalClaims(h.token.payload).ExpiresAt = h.claims.ExpiresAt)
    /\ [][\A h \in issued : h \in issued']_vars
    /\ [](Refreshed /\ out.res.err = NoErr /\ HandedOut(out.token)
             /\ clock < ExpOf(out.token)
             => /\ ValidateToken(out.token, clock).err = NoErr
                /\ ValidateToken(out.res.token, clock).err = NoErr)

\* C8 witness: a handed-out token was refreshed and is still before its expiry
C8_Witness ==
    /\ Refreshed
    /\ out.res.err = NoErr
    /\ HandedOut(out.token)
    /\ out.res.token # out.token
    /\ clock < ExpOf(out.token)
    /\ ValidateToken(out.token, clock).err = NoErr

\* ------------------------------------------------------------------------
\* models/user.go: User.GenerateUsernameFromEmail. Strings are sequences of
\* code points (runes); the result holds ASCII only, so its len() in bytes
\* is its length in runes.
\* ------------------------------------------------------------------------
AtSign == 64
UserSuffix == <<117, 115, 101, 114>>   \* "user"

\* strings.Split(email, "@")[0]: everything before the first '@', the whole
\* string when there is none
RECURSIVE FirstPart(_)
FirstPart(s) ==
    IF s = <<>> \/ Head(s) = AtSign THEN <<>>
    ELSE <<Head(s)>> \o FirstPart(Tail(s))

\* the filter of the range loop: a-z, A-Z, 0-9 and '_'
KeepRune(c) ==
    \/ c >= 97 /\ c <= 122
    \/ c >= 65 /\ c <= 90
    \/ c >= 48 /\ c <= 57
    \/ c = 95

\* strings.ToLower on the kept (ASCII) runes
LowerRune(c) == IF c >= 65 /\ c <= 90 THEN c + 32 ELSE c
ToLower(s) == [i \in DOMAIN s |-> LowerRune(s[i])]

\* a derivation that also pads a cleaned name of exactly 3 runes
PadShortOrThree(result) == IF Len(result) <= 3 THEN result \o UserSuffix ELSE result
PadShort(result) == IF Len(result) < 3 THEN result \o UserSuffix ELSE result
CutLong(result) == IF Len(result) > 30 THEN SubSeq(result, 1, 30) ELSE result

GenerateUsernameFromEmail(e) ==
    IF e = <<>> THEN <<>>
    ELSE CutLong(PadShort(ToLower(SelectSeq(FirstPart(e), KeepRune))))

\* ------------------------------------------------------------------------
\* Username derivation on its own: one call on one email
\* ------------------------------------------------------------------------
MaxEmailLen == 3   \* every string over Alphabet up to this length is tried
MaxRun == 32       \* longest run of one rune in the long inputs

\* runes on both sides of every class boundary of KeepRune, '@' and '.',
\* and one rune outside ASCII
Alphabet == {97, 122, 65, 90, 48, 57, 95, 46, 64, 96, 123, 91, 47, 58, 233}

RECURSIVE StringsUpTo(_)
StringsUpTo(n) ==
    IF n = 0 THEN {<<>>}
    ELSE LET shorter == StringsUpTo(n - 1)
         IN shorter \cup {<<c>> \o t : c \in Alphabet, t \in {u \in shorter : Len(u) = n - 1}}

Run(c, n) == [i \in 1..n |-> c]

EmailAbXCom == <<97, 98, 64, 120, 46, 99, 111, 109>>       \* "ab@x.com"
EmailJohnDoe == <<74, 111, 104, 110, 46, 68, 111, 101, 49, 50, 51, 64, 120, 46, 99, 111, 109>>     \* "John.Doe123@x.com"

LongEmails ==
    {Run(c, n) \o t : c \in {97, 90, 46}, n \in (MaxRun - 6)..MaxRun,
                      t \in {<<>>, <<95, 64, 120>>, <<57>>}}

Emails == StringsUpTo(MaxEmailLen) \cup LongEmails \cup {EmailAbXCom, EmailJohnDoe}

InitDerive ==
    /\ email \in Emails
    /\ derived = NotRun
    /\ clock = 0
    /\ issued = {}
    /\ out = Idle
    /\ users = <<>>
    /\ procs = <<>>
    /\ enquiries = <<>>

Derive ==
    /\ derived = NotRun
    /\ derived' = [ran |-> TRUE, username |-> GenerateUsernameFromEmail(email)]
    /\ UNCHANGED <<clock, issued, out, users, procs, email, enquiries>>

NextDerive == Derive

SpecDerive == InitDerive /\ [][NextDerive]_vars

\* the derivation as the specification words it
RECURSIVE StripUnusable(_)
StripUnusable(s) ==
    IF s = <<>> THEN <<>>
    ELSE LET c == Head(s)
             usable == c \in (97..122) \cup (65..90) \cup (48..57) \cup {95}
         IN IF usable
            THEN <<IF c \in 65..90 THEN c + 32 ELSE c>> \o StripUnusable(Tail(s))
            ELSE StripUnusable(Tail(s))

BeforeFirstAt(s) ==
    IF \E i \in DOMAIN s : s[i] = AtSign
    THEN SubSeq(s, 1, (CHOOSE i \in DOMAIN s :
                          s[i] = AtSign /\ \A j \in 1..(i - 1) : s[j] # AtSign) - 1)
    ELSE s

Described(e) ==
    LET cleaned == StripUnusable(BeforeFirstAt(e))
        padded == IF Len(cleaned) < 3 THEN cleaned \o UserSuffix ELSE cleaned
    IN IF Len(padded) > 30 THEN SubSeq(padded, 1, 30) ELSE padded

\* C10 as stated: for every email the derived username is the part before
\* the first '@', stripped to ASCII letters, digits and underscore,
\* lower-cased, with "user" appended when shorter than 3 and cut to 30 when
\* longer; "user" when nothing usable remains, and "user" for the empty
\* email; "ab@x.com" gives "abuser" and "John.Doe123@x.com" "johndoe123".
C10_AsStated ==
    derived.ran =>
        /\ derived.username = (IF email = <<>> THEN UserSuffix ELSE Described(email))
        /\ email = EmailAbXCom => derived.username = <<97, 98, 117, 115, 101, 114>>
        /\ email = EmailJohnDoe => derived.username = <<106, 111, 104, 110, 100, 111, 101, 49, 50, 51>>

\* C10 amended: as stated for every non-empty email; for the empty email
\* the result is the empty string (which CreateUser rejects with "failed to
\* generate username from email"), not "user".
C10_Derivation ==
    derived.ran =>
        /\ derived.username = (IF email = <<>> THEN <<>> ELSE Described(email))
        /\ StripUnusable(BeforeFirstAt(email)) = <<>> /\ email # <<>>
              => derived.username = UserSuffix
        /\ email = EmailAbXCom => derived.username = <<97, 98, 117, 115, 101, 114>>
        /\ email = EmailJohnDoe => derived.username = <<106, 111, 104, 110, 100, 111, 101, 49, 50, 51>>

\* C10 witness: an input long enough to be cut, with upper-case runes and
\* runes to strip
C10_Witness ==
    /\ derived.ran
    /\ Len(derived.username) = 30
    /\ Len(email) > 30
    /\ \E i \in DOMAIN email : email[i] = 90
    /\ \E i \in DOMAIN email : email[i] = 64

\* ------------------------------------------------------------------------
\* UserService.CreateUser against the users collection. Connect creates no
\* index on the collection, so InsertOne accepts any document; each store
\* call is one step, and calls of concurrent requests interleave.
\* ------------------------------------------------------------------------
MaxProcs == 2        \* create-user requests in flight or finished
MaxAttempts == 999

EmailDotted == <<97, 46, 98, 64, 121, 46, 105, 111>>   \* "a.b@y.io"
CreateEmails == {EmailAbXCom, EmailDotted, EmailJohnDoe}
Password == <<112, 97, 115, 115, 119, 111, 114, 100, 49>>   \* "password1"

ErrStore == "store error"
ErrEmailExists == "user with this email already exists"
ErrNoUsername == "failed to generate username from email"
ErrNoUniqueUsername == "unable to generate unique username after multiple attempts"

ErrHash == "bcrypt error"

\* bcrypt.GenerateFromPassword: the stored string is a hash, never the input;
\* hashes of different passwords differ, and CheckPassword accepts a hash
\* for the password it was made from and for no other
BcryptPrefix == <<36, 50, 97, 36, 49, 48, 36>>   \* "$2a$10$"
HashPassword(p) == BcryptPrefix \o p
CheckPassword(hash, p) == hash = HashPassword(p)

\* the %d of fmt.Sprintf("%s%d", originalUsername, counter)
RECURSIVE Decimal(_)
Decimal(n) ==
    IF n < 10 THEN <<48 + n>> ELSE Decimal(n \div 10) \o <<48 + (n % 10)>>

GetUserByEmail(e) == {i \in DOMAIN users : users[i].Email = e}
GetUserByUsername(u) == {i \in DOMAIN users : users[i].Username = u}

Finish(i, err) ==
    procs' = [procs EXCEPT ![i].pc = "done", ![i].err = err]

\* the controller builds the user from a validated request and calls
\* CreateUser
Submit ==
    /\ Len(procs) < MaxProcs
    /\ \E e \in CreateEmails, r \in {RoleAdmin, RoleSuperAdmin} :
          procs' = Append(procs,
                      [pc |-> "GetUserByEmail",
                       user |-> [Email |-> e, Username |-> <<>>,
                                 Password |-> Password,
                                 Role |-> r, IsActive |-> FALSE],
                       originalUsername |-> <<>>,
                       counter |-> 0,
                       err |-> NoErr])
    /\ UNCHANGED <<clock, issued, out, users, email, derived, enquiries>>

\* the email lookup, then the derivation of the username
CheckEmail ==
    /\ \E i \in DOMAIN procs, storeOk \in BOOLEAN :
          /\ procs[i].pc = "GetUserByEmail"
          /\ LET username == GenerateUsernameFromEmail(procs[i].user.Email)
             IN IF ~storeOk THEN Finish(i, ErrStore)
                ELSE IF GetUserByEmail(procs[i].user.Email) # {}
                     THEN Finish(i, ErrEmailExists)
                ELSE IF username = <<>> THEN Finish(i, ErrNoUsername)
                ELSE procs' = [procs EXCEPT ![i].pc = "GetUserByUsername",
                                            ![i].user.Username = username,
                                            ![i].originalUsername = username,
                                            ![i].counter = 1]
    /\ UNCHANGED <<clock, issued, out, users, email, derived, enquiries>>

\* one iteration of the username loop; leaving it sets IsActive and hashes
\* the password
CheckUsername ==
    /\ \E i \in DOMAIN procs, storeOk \in BOOLEAN :
          /\ procs[i].pc = "GetUserByUsername"
          /\ LET p == procs[i]
             IN IF ~storeOk THEN Finish(i, ErrStore)
                ELSE IF GetUserByUsername(p.user.Username) = {}
                     THEN \E hashOk \in BOOLEAN :
                             IF hashOk
                             THEN procs' = [procs EXCEPT
                                        ![i].pc = "InsertOne",
                                        ![i].user.IsActive = TRUE,
                                        ![i].user.Password =
                                            HashPassword(p.user.Password)]
                             ELSE procs' = [procs EXCEPT
                                        ![i].pc = "done",
                                        ![i].err = ErrHash,
                                        ![i].user.IsActive = TRUE]
                ELSE IF p.counter + 1 > MaxAttempts
                     THEN procs' = [procs EXCEPT
                                       ![i].pc = "done",
                                       ![i].err = ErrNoUniqueUsername,
                                       ![i].user.Username =
                                           p.originalUsername \o Decimal(p.counter),
                                       ![i].counter = p.counter + 1]
                ELSE procs' = [procs EXCEPT
                                  ![i].user.Username =
                                      p.originalUsername \o Decimal(p.counter),
                                  ![i].counter = p.counter + 1]
    /\ UNCHANGED <<clock, issued, out, users, email, derived, enquiries>>

InsertOne ==
    /\ \E i \in DOMAIN procs, storeOk \in BOOLEAN :
          /\ procs[i].pc = "InsertOne"
          /\ IF storeOk
             THEN /\ users' = Append(users, procs[i].user)
                  /\ Finish(i, NoErr)
             ELSE /\ users' = users
                  /\ Finish(i, ErrStore)
    /\ UNCHANGED <<clock, issued, out, email, derived, enquiries>>

InitUsers ==
    /\ users = <<>>
    /\ procs = <<>>
    /\ clock = 0
    /\ issued = {}
    /\ out = Idle
    /\ email = <<>>
    /\ derived = NotRun
    /\ enquiries = <<>>

NextUsers == Submit \/ CheckEmail \/ CheckUsername \/ InsertOne

SpecUsers == InitUsers /\ [][NextUsers]_vars

\* C9: after any interleaving of concurrent create-user requests no two
\* stored users share an email and no two stored users share a username.
C9_UniqueUsers ==
    \A i, j \in DOMAIN users :
        i # j => /\ users[i].Email # users[j].Email
                 /\ users[i].Username # users[j].Username

\* ------------------------------------------------------------------------
\* CreateUser run alone against a store that already holds users: the
\* username loop of part_002 75-95
\* ------------------------------------------------------------------------
JohnDoe == <<106, 111, 104, 110, 100, 111, 101>>                      \* "johndoe"
EmailJohnAtX == <<106, 111, 104, 110, 100, 111, 101, 64, 120, 46, 99, 111, 109>>     \* "johndoe@x.com"
EmailJohnDotted == <<106, 111, 104, 110, 46, 100, 111, 101, 64, 121, 46, 105, 111>>   \* "john.doe@y.io"
LoneEmails == {EmailJohnAtX, EmailJohnDotted}

\* b for k = 0, b followed by the decimal k otherwise
Suffixed(b, k) == IF k = 0 THEN b ELSE b \o Decimal(k)

\* a user created earlier, alone, from the email <username>@s.io
EarlierUser(username) ==
    [Email |-> username \o <<64, 115, 46, 105, 111>>,
     Username |-> username,
     Password |-> HashPassword(Password),
     Role |-> RoleAdmin,
     IsActive |-> TRUE]

\* the store after the creations that took b with the suffixes first..last
StoreTaking(b, first, last) ==
    [i \in 1..(last - first + 1) |-> EarlierUser(Suffixed(b, first + i - 1))]

\* the store with b and b2 taken and b1 free
StoreWithGap(b) == <<EarlierUser(b), EarlierUser(Suffixed(b, 2))>>

\* stores around every branch of the loop: b free, b taken with the next
\* suffixes taken or free, and b taken with every suffix up to the loop's
\* limit, one short of it and two short of it
EarlierStores ==
    {StoreTaking(JohnDoe, 0, n) : n \in -1..2}
    \cup {StoreTaking(JohnDoe, 1, 1), StoreWithGap(JohnDoe)}
    \cup {StoreTaking(JohnDoe, 0, n) : n \in (MaxAttempts - 2)..MaxAttempts}

\* one pass through the body of the username loop of CreateUser; l.done
\* says that the loop was left, by its break or by its return
LoopBody(store, l) ==
    IF l.done THEN l
    ELSE IF ~\E i \in DOMAIN store : store[i].Username = l.username
    THEN [l EXCEPT !.done = TRUE]
    ELSE IF l.counter + 1 > MaxAttempts
    THEN [l EXCEPT !.done = TRUE,
                   !.err = ErrNoUniqueUsername,
                   !.username = l.originalUsername \o Decimal(l.counter),
                   !.counter = l.counter + 1]
    ELSE [l EXCEPT !.username = l.originalUsername \o Decimal(l.counter),
                   !.counter = l.counter + 1]

\* n passes through the body, one after the other
RECURSIVE Passes(_, _, _)
Passes(store, l, n) ==
    IF n = 0 THEN l
    ELSE IF n = 1 THEN LoopBody(store, l)
    ELSE LET first == Passes(store, l, n \div 2)
         IN IF first.done THEN first
            ELSE Passes(store, first, n - (n \div 2))

\* the loop run to its end: every pass not taking the break adds one to
\* counter, so it is left within MaxAttempts passes
UsernameLoop(store, originalUsername, username, counter) ==
    Passes(store,
           [done |-> FALSE, err |-> NoErr, originalUsername |-> originalUsername,
            username |-> username, counter |-> counter],
           MaxAttempts)

StoreCalls == {"GetUserByEmail", "GetUserByUsername", "InsertOne"}
Repeat(x, n) == [k \in 1..n |-> x]
FailingCalls == StoreCalls \cup {"HashPassword"}
NoFailure == "none"

\* a last_login that was never set (a nil *time.Time), and the zero
\* time.Time of a user that was only decoded from the request
NoLastLogin == -1
ZeroTime == -2

\* UserService.CreateUser run to its end on the store `store` at time now,
\* no other request touching the store meanwhile; failing names the call
\* that returns an error (a store call, for GetUserByUsername the first one
\* of the loop, or HashPassword), or NoFailure
CreateUserAlone(store, user, now, failing) ==
    LET username == GenerateUsernameFromEmail(user.Email)
        loop == UsernameLoop(store, username, username, 1)
        ready == [user EXCEPT !.Username = loop.username,
                              !.CreatedAt = now,
                              !.UpdatedAt = now,
                              !.IsActive = TRUE,
                              !.Password = HashPassword(user.Password)]
        \* the store calls made, in order: one lookup by e-mail, one lookup
        \* by username for every pass through the loop, and the insert
        byEmail == <<"GetUserByEmail">>
        lookups == byEmail \o Repeat("GetUserByUsername",
                                     IF loop.err = NoErr THEN loop.counter
                                     ELSE loop.counter - 1)
        stop(err, u, c, calls) ==
            [err |-> err, user |-> u, originalUsername |-> username,
             counter |-> c, store |-> store, calls |-> calls]
    IN IF failing = "GetUserByEmail"
       THEN [stop(ErrStore, user, 0, byEmail) EXCEPT !.originalUsername = <<>>]
       ELSE IF \E i \in DOMAIN store : store[i].Email = user.Email
       THEN [stop(ErrEmailExists, user, 0, byEmail) EXCEPT !.originalUsername = <<>>]
       ELSE IF username = <<>>
       THEN [stop(ErrNoUsername, user, 0, byEmail) EXCEPT !.originalUsername = <<>>]
       ELSE IF failing = "GetUserByUsername"
       THEN stop(ErrStore, [user EXCEPT !.Username = username], 1,
                 byEmail \o <<"GetUserByUsername">>)
       ELSE IF loop.err # NoErr
       THEN stop(loop.err, [user EXCEPT !.Username = loop.username], loop.counter,
                 lookups)
       ELSE IF failing = "HashPassword"
       THEN stop(ErrHash, [ready EXCEPT !.Password = user.Password], loop.counter,
                 lookups)
       ELSE IF failing = "InsertOne"
       THEN stop(ErrStore, ready, loop.counter, lookups \o <<"InsertOne">>)
       ELSE [err |-> NoErr, user |-> ready, originalUsername |-> username,
             counter |-> loop.counter, store |-> Append(store, ready),
             calls |-> lookups \o <<"InsertOne">>]

\* one create-user request served to its end, with no other in flight
CreateAlone ==
    /\ procs = <<>>
    /\ \E e \in LoneEmails, r \in {RoleAdmin, RoleSuperAdmin},
          failing \in FailingCalls \cup {NoFailure} :
          LET user == [Email |-> e, Username |-> <<>>,
                       Password |-> Password,
                       Role |-> r, IsActive |-> FALSE, LastLogin |-> NoLastLogin,
                       CreatedAt |-> ZeroTime, UpdatedAt |-> ZeroTime]
              res == CreateUserAlone(users, user, clock, failing)
          IN /\ users' = res.store
             /\ procs' = <<[pc |-> "done", user |-> res.user,
                            originalUsername |-> res.originalUsername,
                            counter |-> res.counter, err |-> res.err]>>
    /\ UNCHANGED <<clock, issued, out, email, derived, enquiries>>

InitAlone ==
    /\ users \in EarlierStores
    /\ procs = <<>>
    /\ clock = 0
    /\ issued = {}
    /\ out = Idle
    /\ email = <<>>
    /\ derived = NotRun
    /\ enquiries = <<>>

NextAlone == CreateAlone

SpecAlone == InitAlone /\ [][NextAlone]_vars

CreateDone == procs # <<>> /\ procs[1].pc = "done"
Inserted == CreateDone /\ procs[1].err = NoErr
\* the store as the finished creation found it
StoreBefore == IF Inserted THEN SubSeq(users, 1, Len(users) - 1) ELSE users
TakenBefore(u) == \E i \in DOMAIN StoreBefore : StoreBefore[i].Username = u
DerivedOf == GenerateUsernameFromEmail(procs[1].user.Email)

\* C11 as stated: a creation run alone stores b when b is free, otherwise b
\* followed by the smallest k in 1..999 such that b+k is free; it fails with
\* the "unable to generate unique username" error only when b and all of
\* b1..b999 are taken, and then nothing is inserted.
C11_SmallestFreeSuffix ==
    CreateDone =>
        LET b == DerivedOf
            free == {k \in 0..MaxAttempts : ~TakenBefore(Suffixed(b, k))}
            least == CHOOSE k \in free : \A j \in free : k <= j
        IN /\ Inserted =>
                 /\ free # {}
                 /\ users[Len(users)].Username = Suffixed(b, least)
           /\ procs[1].err = ErrNoUniqueUsername => free = {} /\ users = StoreBefore
           /\ procs[1].err \in {NoErr, ErrStore, ErrHash}
                 \/ (procs[1].err = ErrNoUniqueUsername /\ free = {})

\* ------------------------------------------------------------------------
\* The user endpoints served one request at a time: POST /create-user,
\* POST /auth/signin and GET /users with their controllers. A stored user
\* is identified by its position in the collection. Fields no controller
\* branches on (names, profile picture, company, timestamps, last login)
\* are left out of the documents and of the response bodies.
\* ------------------------------------------------------------------------
Dot == 46
Contains(str, c) == \E i \in DOMAIN str : str[i] = c

NoData == [kind |-> "none"]
Respond(status, message, error, data) ==
    [status |-> status, message |-> message, error |-> error, data |-> data]

\* a response body that carries the stored password along
ToResponseWithPassword(u, id) ==
    [ID |-> Hex(id), Username |-> u.Username, Email |-> u.Email,
     Role |-> u.Role, IsActive |-> u.IsActive, Password |-> u.Password]

\* models.User.ToResponse: no password member
ToResponse(u, id) ==
    [ID |-> Hex(id), Username |-> u.Username, Email |-> u.Email,
     Role |-> u.Role, IsActive |-> u.IsActive]

\* models.User.ToListResponse: no password member
ToListResponse(u, id) ==
    [ID |-> Hex(id), Email |-> u.Email, Username |-> u.Username, Role |-> u.Role]

\* the transport part of a request: Content-Type and whether the body
\* decodes as JSON
Transports == {"json", "text/plain", "broken json"}

\* the bytes of a code point in UTF-8
Utf8Width(c) == IF c < 128 THEN 1 ELSE IF c < 2048 THEN 2 ELSE IF c < 65536 THEN 3 ELSE 4

\* len(s) of a Go string: the number of its bytes
RECURSIVE ByteLen(_)
ByteLen(s) == IF s = <<>> THEN 0 ELSE Utf8Width(Head(s)) + ByteLen(Tail(s))

\* UserController.CreateUser on the store `store`: the response and the
\* store it leaves
CreateUserResponse(store, req, now, failing) ==
    LET reject(status, message, error) ==
            [res |-> Respond(status, message, error, NoData), store |-> store,
             calls |-> <<>>]
        user == [Email |-> req.email, Username |-> <<>>,
                 Password |-> req.password, Role |-> req.role, IsActive |-> FALSE,
                 LastLogin |-> NoLastLogin, CreatedAt |-> ZeroTime,
                 UpdatedAt |-> ZeroTime]
        answer(created) ==
            IF req.transport = "text/plain"
            THEN reject(415, "Unsupported media type",
                        "Content-Type must be application/json")
            ELSE IF req.transport = "broken json"
            THEN reject(400, "Invalid JSON format", "json error")
            ELSE IF req.first_name = "" \/ req.last_name = "" \/ req.email = <<>>
                    \/ req.password = <<>>
            THEN reject(400, "Missing required fields",
                        "first_name, last_name, email, and password are required")
            ELSE IF ~Contains(req.email, AtSign) \/ ~Contains(req.email, Dot)
            THEN reject(400, "Invalid email format", "Email must contain @ and domain")
            ELSE IF ByteLen(req.password) < 8
            THEN reject(400, "Password too short",
                        "Password must be at least 8 characters long")
            ELSE IF req.role # RoleAdmin /\ req.role # RoleSuperAdmin
            THEN reject(400, "Invalid role",
                        "Role must be either 'admin' or 'super-admin'")
            ELSE IF created.err = ErrEmailExists
            THEN [reject(409, "User already exists", "Email address is already registered")
                    EXCEPT !.calls = created.calls]
            ELSE IF created.err # NoErr
            THEN [reject(500, "Failed to create user", created.err)
                    EXCEPT !.calls = created.calls]
            ELSE [res |-> Respond(201, "User created successfully", "",
                                  [kind |-> "user",
                                   user |-> ToResponse(created.user, Len(created.store))]),
                  store |-> created.store, calls |-> created.calls]
    IN answer(CreateUserAlone(store, user, now, failing))

\* models.AuthError types
ErrUserNotFound == "user_not_found"
ErrAccountDeactivated == "account_deactivated"
ErrInvalidPassword == "invalid_password"

NoUser == 0
\* FindOne: the first document that matches
FindByEmail(store, e) ==
    IF \E i \in DOMAIN store : store[i].Email = e
    THEN CHOOSE i \in DOMAIN store :
            /\ store[i].Email = e
            /\ \A j \in 1..(i - 1) : store[j].Email # e
    ELSE NoUser

\* UserService.UpdateUser with the last_login update of a sign-in: $set
\* of last_login and updated_at on the document with that _id
UpdateUser(store, i, lastLogin, updatedAt, failing) ==
    IF failing = "UpdateOne"
    THEN [err |-> ErrStore, store |-> store, calls |-> <<"UpdateOne">>]
    ELSE [err |-> IF failing = "GetUserByID" THEN ErrStore ELSE NoErr,
          store |-> [store EXCEPT ![i].LastLogin = lastLogin,
                                  ![i].UpdatedAt = updatedAt],
          calls |-> <<"UpdateOne", "GetUserByID">>]

\* the password is checked before the active flag
AuthenticatePasswordFirst(store, e, password, now, later, failing) ==
    LET i == FindByEmail(store, e)
        stop(err) == [err |-> err, user |-> NoUser, store |-> store,
                      calls |-> <<"GetUserByEmail">>]
    IN IF failing = "GetUserByEmail" THEN stop(ErrStore)
       ELSE IF i = NoUser THEN stop(ErrUserNotFound)
       ELSE IF ~CheckPassword(store[i].Password, password)
       THEN stop(ErrInvalidPassword)
       ELSE IF ~store[i].IsActive THEN stop(ErrAccountDeactivated)
       ELSE [err |-> NoErr, user |-> i,
             store |-> UpdateUser(store, i, now, later, failing).store,
             calls |-> <<"GetUserByEmail">>
                       \o UpdateUser(store, i, now, later, failing).calls]

\* UserService.AuthenticateUser: the user's position, or an error, and the
\* store it leaves; last_login is set at time now, updated_at at the later
\* reading of the clock in UpdateUser, and a failing update is ignored
AuthenticateUser(store, e, password, now, later, failing) ==
    LET i == FindByEmail(store, e)
        stop(err) == [err |-> err, user |-> NoUser, store |-> store,
                      calls |-> <<"GetUserByEmail">>]
    IN IF failing = "GetUserByEmail" THEN stop(ErrStore)
       ELSE IF i = NoUser THEN stop(ErrUserNotFound)
       ELSE IF ~store[i].IsActive THEN stop(ErrAccountDeactivated)
       ELSE IF ~CheckPassword(store[i].Password, password)
       THEN stop(ErrInvalidPassword)
       ELSE [err |-> NoErr, user |-> i,
             store |-> UpdateUser(store, i, now, later, failing).store,
             calls |-> <<"GetUserByEmail">>
                       \o UpdateUser(store, i, now, later, failing).calls]

\* UserService.SignInUser at time now
SignInUser(store, e, password, failing, now, later) ==
    LET a == AuthenticateUser(store, e, password, now, later, failing)
        u == store[a.user]
        t == GenerateTokenResult([ID |-> a.user, Email |-> u.Email,
                                  Username |-> u.Username, Role |-> u.Role],
                                 now, now, now)
    IN IF a.err # NoErr
       THEN [err |-> a.err, data |-> NoData, store |-> a.store, calls |-> a.calls]
       ELSE IF t.err # NoErr
       THEN [err |-> t.err, data |-> NoData, store |-> a.store, calls |-> a.calls]
       ELSE [err |-> NoErr,
             data |-> [kind |-> "sign-in",
                       user |-> ToResponse(u, a.user),
                       token |-> t.token,
                       expires_at |-> now + GetTokenExpiration(u.Role),
                       role |-> u.Role],
             store |-> a.store, calls |-> a.calls]

\* UserController.SignIn: the response and the store it leaves
SignInResponse(store, req, failing, now, later) ==
    LET signedIn(r) ==
        LET reject(status, message, error) ==
                [res |-> Respond(status, message, error, NoData), store |-> r.store,
                 calls |-> r.calls]
            early(status, message, error) ==
                [res |-> Respond(status, message, error, NoData), store |-> store,
                 calls |-> <<>>]
        IN IF req.transport = "text/plain"
           THEN early(415, "Unsupported media type",
                      "Content-Type must be application/json")
           ELSE IF req.transport = "broken json"
           THEN early(400, "Invalid JSON format", "json error")
           ELSE IF req.email = <<>> \/ req.password = <<>>
           THEN early(400, "Missing required fields", "email and password are required")
           ELSE IF ~Contains(req.email, AtSign) \/ ~Contains(req.email, Dot)
           THEN early(400, "Invalid email format", "Email must contain @ and domain")
           ELSE IF r.err = ErrUserNotFound
           THEN reject(401, "Email not found", "No user exists with this email address")
           ELSE IF r.err = ErrInvalidPassword
           THEN reject(401, "Wrong password", "The password you entered is incorrect")
           ELSE IF r.err = ErrAccountDeactivated
           THEN reject(403, "Account deactivated",
                       "Your account has been deactivated. Please contact support")
           ELSE IF r.err # NoErr
           THEN reject(500, "Sign-in failed",
                       "An unexpected error occurred. Please try again later.")
           ELSE [res |-> Respond(200, "Sign-in successful", "", r.data), store |-> r.store,
                 calls |-> r.calls]
    IN signedIn(SignInUser(store, req.email, req.password, failing, now, later))

\* a DELETE /users/{id} that removes the user and reports success
DeleteUserRemoving(store, id) ==
    [res |-> Respond(200, "User deleted", "", NoData),
     store |-> [k \in 1..(Len(store) - (IF id \in DOMAIN store THEN 1 ELSE 0)) |->
                  IF k < id THEN store[k] ELSE store[k + 1]]]

\* UserController.DeleteUser (DELETE /users/{id}): not implemented
DeleteUser(store, id) ==
    [res |-> Respond(405, "Method not allowed",
                     "DELETE method not implemented for this endpoint", NoData),
     store |-> store]

\* UserController.GetUser (GET /users/{id}): not implemented
GetUser(store, id) ==
    [res |-> Respond(405, "Method not allowed",
                     "GET method not implemented for this endpoint", NoData),
     store |-> store]

\* UserController.UpdateUser (PUT /users/{id}): not implemented
PutUser(store, id) ==
    [res |-> Respond(405, "Method not allowed",
                     "PUT method not implemented for this endpoint", NoData),
     store |-> store]

\* UserController.AuthenticateUser (POST /auth/login): not implemented
AuthLogin(store) ==
    [res |-> Respond(405, "Method not allowed",
                     "Authentication endpoint not implemented yet", NoData),
     store |-> store]

\* UserService.GetAllUsersList: every user, newest first
GetAllUsersList(store, failing) ==
    IF failing = "Find" THEN [err |-> ErrStore, users |-> <<>>, calls |-> <<"Find">>]
    ELSE [err |-> NoErr,
          users |-> [k \in 1..Len(store) |->
                       ToListResponse(store[Len(store) + 1 - k], Len(store) + 1 - k)],
          calls |-> <<"Find">>]

\* UserController.GetAllUsers
GetAllUsersResponse(store, failing) ==
    LET r == GetAllUsersList(store, failing)
    IN IF r.err # NoErr
       THEN Respond(500, "Failed to fetch users",
                    "An error occurred while retrieving users from the database", NoData)
       ELSE Respond(200, "Users retrieved successfully", "",
                    [kind |-> "users", users |-> r.users])

\* request bodies: each field with the values on both sides of every test
\* the controllers make
EmailNoAt == <<97, 98, 46, 120, 46, 99, 111, 109>>        \* "ab.x.com"
EmailNoDot == <<97, 98, 64, 120>>      \* "ab@x"
ShortPassword == <<112, 97, 115, 115, 119, 111, 114>>   \* "passwor"
OtherPassword == <<80, 97, 115, 115, 119, 111, 114, 100, 49>>   \* "Password1"
\* six Cyrillic letters (U+043F U+0430 U+0440 U+043E U+043B U+044C), twelve
\* bytes in UTF-8
CyrillicPassword == <<1087, 1072, 1088, 1086, 1083, 1100>>
BodyEmails == {<<>>, EmailNoAt, EmailNoDot, EmailAbXCom, EmailDotted}

CreateRequests ==
    [transport : Transports, first_name : {"Jo", ""}, last_name : {"Doe"},
     email : BodyEmails,
     password : {<<>>, ShortPassword, Password, CyrillicPassword},
     role : {RoleAdmin, RoleSuperAdmin, "viewer", ""}]
    \cup
    [transport : {"json"}, first_name : {"Jo"}, last_name : {""},
     email : {EmailAbXCom}, password : {Password}, role : {RoleAdmin}]

SignInRequests ==
    [transport : Transports, email : BodyEmails,
     password : {<<>>, Password, OtherPassword}]

PostCreateUser ==
    /\ out = Idle
    /\ \E req \in CreateRequests, failing \in FailingCalls \cup {NoFailure} :
          \E r \in {CreateUserResponse(users, req, clock, failing)} :
             /\ users' = r.store
             /\ out' = [op |-> "CreateUser", req |-> req, failing |-> failing,
                        before |-> users, calls |-> r.calls, res |-> r.res]
    /\ UNCHANGED <<clock, issued, procs, email, derived, enquiries>>

PostSignIn ==
    /\ out = Idle
    /\ \E req \in SignInRequests, failing \in {"GetUserByEmail", "UpdateOne", "GetUserByID", NoFailure},
          later \in {clock, clock + 1} :
          \E r \in {SignInResponse(users, req, failing, clock, later)} :
             /\ users' = r.store
             /\ out' = [op |-> "SignIn", req |-> req, failing |-> failing,
                        before |-> users, calls |-> r.calls, res |-> r.res]
    /\ UNCHANGED <<clock, issued, procs, email, derived, enquiries>>

\* GET, PUT or DELETE /users/{id}, or POST /auth/login
UserStub ==
    /\ out = Idle
    /\ \E id \in 1..2, method \in {"GET", "PUT", "DELETE", "POST"} :
          \E r \in {IF method = "GET" THEN GetUser(users, id)
                    ELSE IF method = "PUT" THEN PutUser(users, id)
                    ELSE IF method = "DELETE" THEN DeleteUser(users, id)
                    ELSE AuthLogin(users)} :
             /\ users' = r.store
             /\ out' = [op |-> "UserStub", method |-> method, id |-> id,
                        before |-> users, res |-> r.res]
    /\ UNCHANGED <<clock, issued, procs, email, derived, enquiries>>

GetUsers ==
    /\ out = Idle
    /\ \E failing \in {"Find", NoFailure} :
          out' = [op |-> "GetAllUsers", failing |-> failing, before |-> users,
                  calls |-> GetAllUsersList(users, failing).calls,
                  res |-> GetAllUsersResponse(users, failing)]
    /\ UNCHANGED <<clock, issued, users, procs, email, derived, enquiries>>

\* an account is deactivated: UserService.UpdateUser with is_active false,
\* which no route calls, or an edit made in the database
Deactivate ==
    /\ out = Idle
    /\ \E i \in DOMAIN users :
          /\ users[i].IsActive
          /\ users' = [users EXCEPT ![i].IsActive = FALSE]
    /\ UNCHANGED <<clock, issued, out, procs, email, derived, enquiries>>

InitAccounts ==
    /\ users = <<>>
    /\ procs = <<>>
    /\ clock = 0
    /\ issued = {}
    /\ out = Idle
    /\ email = <<>>
    /\ derived = NotRun
    /\ enquiries = <<>>

NextAccounts ==
    PostCreateUser \/ PostSignIn \/ GetUsers \/ UserStub \/ Deactivate \/ Return

SpecAccounts == InitAccounts /\ [][NextAccounts]_vars

\* ------------------------------------------------------------------------
\* Claims about the user endpoints
\* ------------------------------------------------------------------------
CreateServed == out.op = "CreateUser"
SignInServed == out.op = "SignIn"
UsersServed == out.op = "GetAllUsers"

Plaintexts == {ShortPassword, Password, OtherPassword, CyrillicPassword}
Secrets == Plaintexts \cup {HashPassword(p) : p \in Plaintexts}

\* a user body has no password member and no member holding a password
\* or a hash
Clean(body) ==
    /\ "Password" \notin DOMAIN body
    /\ body.Username \notin Secrets
    /\ body.Email \notin Secrets

\* C12: the plaintext password of a create-user request is never written
\* to the store (the stored password is the hash of the request's password,
\* and nothing is inserted when hashing fails), and the bodies returned by
\* create-user, sign-in and the user list hold neither plaintext nor hash.
C12_PasswordNeverPlain ==
    /\ \A i \in DOMAIN users :
          /\ users[i].Password \notin Plaintexts
          /\ \E p \in Plaintexts : users[i].Password = HashPassword(p)
    /\ CreateServed /\ out.res.status = 201 =>
          /\ users[Len(users)].Password = HashPassword(out.req.password)
          /\ Clean(out.res.data.user)
    /\ CreateServed /\ out.res.error = ErrHash => users = out.before
    /\ CreateServed /\ out.res.status # 201 => out.res.data = NoData
    /\ SignInServed /\ out.res.status = 200 =>
          /\ Clean(out.res.data.user)
          /\ DOMAIN out.res.data = {"kind", "user", "token", "expires_at", "role"}
          /\ "password" \notin DOMAIN out.res.data.token.payload
    /\ SignInServed /\ out.res.status # 200 => out.res.data = NoData
    /\ UsersServed /\ out.res.status = 200 =>
          \A k \in DOMAIN out.res.data.users : Clean(out.res.data.users[k])

\* C12 witness: a user was created, and the user list that holds it is
\* returned
C12_Witness ==
    /\ UsersServed
    /\ out.res.status = 200
    /\ Len(out.res.data.users) = 2
    /\ users[1].Password = HashPassword(Password)

\* ------------------------------------------------------------------------
\* int64: the type of page, limit, skip and the pagination numbers.
\* A value is its eight bytes, least significant first, in two's
\* complement; every operation wraps as Go's does.
\* ------------------------------------------------------------------------
Base == 256
Width == 8
SignBit == 128

\* the int64 of a natural number below 2^31
Word(n) ==
    <<n % Base, (n \div Base) % Base, (n \div (Base * Base)) % Base,
      n \div (Base * Base * Base), 0, 0, 0, 0>>

Zero64 == Word(0)
One64 == Word(1)

RECURSIVE AddBytes(_, _, _)
AddBytes(a, b, carry) ==
    IF a = <<>> THEN <<>>
    ELSE LET s == Head(a) + Head(b) + carry
         IN  <<s % Base>> \o AddBytes(Tail(a), Tail(b), s \div Base)

Add64(a, b) == AddBytes(a, b, 0)
Not64(a) == [i \in 1..Width |-> Base - 1 - a[i]]
Neg64(a) == Add64(Not64(a), One64)
Sub64(a, b) == Add64(a, Neg64(b))

\* the sum of the byte products that land in byte k
RECURSIVE Column(_, _, _, _)
Column(a, b, k, i) ==
    IF i > k THEN 0 ELSE a[i] * b[k + 1 - i] + Column(a, b, k, i + 1)

\* the low w bytes of a * b, from byte k on
RECURSIVE MulFrom(_, _, _, _, _)
MulFrom(a, b, k, carry, w) ==
    IF k > w THEN <<>>
    ELSE LET s == Column(a, b, k, 1) + carry
         IN  <<s % Base>> \o MulFrom(a, b, k + 1, s \div Base, w)

Mul64(a, b) == MulFrom(a, b, 1, 0, Width)

IsNeg64(a) == a[Width] >= SignBit

\* unsigned comparison, from the most significant byte down
RECURSIVE ULessFrom(_, _, _)
ULessFrom(a, b, i) ==
    IF i = 0 THEN FALSE
    ELSE IF a[i] # b[i] THEN a[i] < b[i]
    ELSE ULessFrom(a, b, i - 1)

ULess(a, b) == ULessFrom(a, b, Width)

\* signed comparison
Less64(a, b) ==
    IF IsNeg64(a) # IsNeg64(b) THEN IsNeg64(a) ELSE ULess(a, b)

\* the natural number of an int64 in 0 .. 2^24 - 1
Small(a) == a[1] + Base * a[2] + Base * Base * a[3]
IsSmall(a) == \A i \in 4..Width : a[i] = 0

\* a / b for a >= 0 and 0 < b < 2^24, byte by byte from the top
RECURSIVE DivFrom(_, _, _, _)
DivFrom(a, m, i, r) ==
    IF i = 0 THEN <<>>
    ELSE LET cur == r * Base + a[i]
         IN  DivFrom(a, m, i - 1, cur % m) \o <<cur \div m>>

Div64(a, b) == DivFrom(a, Small(b), Width, 0)

\* ------------------------------------------------------------------------
\* strconv.ParseInt(s, 10, 64)
\* ------------------------------------------------------------------------
Plus == 43
Minus == 45
DigitZero == 48
DigitNine == 57
IsDigit(c) == c >= DigitZero /\ c <= DigitNine

ErrSyntax == "invalid syntax"
ErrRange == "value out of range"

\* maxUint64/10 + 1
Cutoff == <<154, 153, 153, 153, 153, 153, 153, 25>>
\* 1 << 63
MinInt64 == <<0, 0, 0, 0, 0, 0, 0, SignBit>>
MaxInt64 == Not64(MinInt64)
Ten64 == Word(10)

\* strconv.ParseUint(s, 10, 64), n the value of the digits read so far
RECURSIVE ParseUint(_, _)
ParseUint(s, n) ==
    IF s = <<>> THEN [n |-> n, err |-> NoErr]
    ELSE IF ~IsDigit(Head(s)) THEN [n |-> Zero64, err |-> ErrSyntax]
    ELSE IF ~ULess(n, Cutoff) THEN [n |-> Not64(Zero64), err |-> ErrRange]
    ELSE LET n10 == Mul64(n, Ten64)
             n1 == Add64(n10, Word(Head(s) - DigitZero))
         IN  IF ULess(n1, n10) THEN [n |-> Not64(Zero64), err |-> ErrRange]
             ELSE ParseUint(Tail(s), n1)

ParseInt(s) ==
    IF s = <<>> THEN [n |-> Zero64, err |-> ErrSyntax]
    ELSE LET neg == Head(s) = Minus
             digits == IF Head(s) \in {Plus, Minus} THEN Tail(s) ELSE s
             un == IF digits = <<>> THEN [n |-> Zero64, err |-> ErrSyntax]
                   ELSE ParseUint(digits, Zero64)
         IN  IF un.err = ErrSyntax THEN [n |-> Zero64, err |-> ErrSyntax]
             ELSE IF un.err = ErrRange
                  THEN [n |-> IF neg THEN MinInt64 ELSE MaxInt64, err |-> ErrRange]
             ELSE IF ~neg /\ ~ULess(un.n, MinInt64)
                  THEN [n |-> MaxInt64, err |-> ErrRange]
             ELSE IF neg /\ ULess(MinInt64, un.n)
                  THEN [n |-> MinInt64, err |-> ErrRange]
             ELSE [n |-> IF neg THEN Neg64(un.n) ELSE un.n, err |-> NoErr]

\* ------------------------------------------------------------------------
\* Time of the enquiry collection. primitive.DateTime counts milliseconds
\* since the Unix epoch; a value is written <<days, milliseconds of the
\* day>>, days counted from 1970-01-01 in UTC.
\* ------------------------------------------------------------------------
DayMs == 86400000

Before(a, b) == a[1] < b[1] \/ (a[1] = b[1] /\ a[2] < b[2])
AtOrBefore(a, b) == a = b \/ Before(a, b)

IsLeap(y) == (y % 4 = 0 /\ y % 100 # 0) \/ y % 400 = 0

\* time.daysIn
DaysIn(m, y) ==
    IF m = 2 THEN (IF IsLeap(y) THEN 29 ELSE 28)
    ELSE IF m \in {4, 6, 9, 11} THEN 30 ELSE 31

\* the day number of a calendar date, as time.Date(...).Unix() / 86400
DaysFromCivil(year, m, d) ==
    LET y == IF m <= 2 THEN year - 1 ELSE year
        era == y \div 400
        yoe == y - era * 400
        doy == (153 * (IF m > 2 THEN m - 3 ELSE m + 9) + 2) \div 5 + d - 1
        doe == yoe * 365 + yoe \div 4 - yoe \div 100 + doy
    IN  era * 146097 + doe - 719468

\* primitive.NewDateTimeFromTime(time.Date(y, m, d, h, min, s, ns, time.UTC))
DateTimeOf(y, m, d, h, min, s, ns) ==
    <<DaysFromCivil(y, m, d), ((h * 60 + min) * 60 + s) * 1000 + ns \div 1000000>>

ErrParse == "parsing time"

\* the number written by the two digits of s at i and i + 1
TwoDigits(s, i) == (s[i] - DigitZero) * 10 + (s[i + 1] - DigitZero)

\* a parse that checks the shape and leaves the ranges of month and day to
\* time.Date, which normalises them
ParseDateLenient(s) ==
    LET bad == [err |-> ErrParse, year |-> 0, month |-> 0, day |-> 0]
    IN  IF Len(s) # 10 \/ \E i \in {1, 2, 3, 4, 6, 7, 9, 10} : ~IsDigit(s[i]) THEN bad
        ELSE IF s[5] # Minus \/ s[8] # Minus THEN bad
        ELSE [err |-> NoErr, year |-> TwoDigits(s, 1) * 100 + TwoDigits(s, 3),
              month |-> TwoDigits(s, 6), day |-> TwoDigits(s, 9)]

\* time.Parse("2006-01-02", s)
ParseDate(s) ==
    LET bad == [err |-> ErrParse, year |-> 0, month |-> 0, day |-> 0]
    IN  IF Len(s) < 4 \/ \E i \in 1..4 : ~IsDigit(s[i]) THEN bad
        ELSE IF Len(s) < 5 \/ s[5] # Minus THEN bad
        ELSE IF Len(s) < 7 \/ ~IsDigit(s[6]) \/ ~IsDigit(s[7]) THEN bad
        ELSE IF Len(s) < 8 \/ s[8] # Minus THEN bad
        ELSE IF Len(s) < 10 \/ ~IsDigit(s[9]) \/ ~IsDigit(s[10]) THEN bad
        ELSE IF Len(s) > 10 THEN bad
        ELSE LET year == TwoDigits(s, 1) * 100 + TwoDigits(s, 3)
                 month == TwoDigits(s, 6)
                 day == TwoDigits(s, 9)
             IN  IF month < 1 \/ month > 12 THEN bad
                 ELSE IF day < 1 \/ day > DaysIn(month, year) THEN bad
                 ELSE [err |-> NoErr, year |-> year, month |-> month, day |-> day]

\* the server starts two milliseconds before the end of 2024-02-29 (UTC);
\* clock counts the milliseconds since then
StartOfClock == DateTimeOf(2024, 2, 29, 23, 59, 59, 998000000)

\* primitive.NewDateTimeFromTime(time.Now())
Now ==
    LET ms == StartOfClock[2] + clock
    IN  <<StartOfClock[1] + ms \div DayMs, ms % DayMs>>

\* ------------------------------------------------------------------------
\* EnquiryService over Collection
\* ------------------------------------------------------------------------
TypeGeneral == "general"
TypeSales == "sales"

\* the zero ObjectID: omitted on insert, the driver then generates one
NilObjectID == 0
\* an ObjectID a client writes into the body as "queryid"
ClientObjectID == 999

\* the ObjectID the driver generates for the next document
NewObjectID(store) == Len(store) + 1

\* a document replaces the stored one that has its _id
CreateEnquiryUpsert(store, query, now, failing) ==
    LET stamped == [query EXCEPT !.CreatedAt = now, !.UpdatedAt = now]
        doc == IF stamped.QueryID = NilObjectID
               THEN [stamped EXCEPT !.QueryID = NewObjectID(store)]
               ELSE stamped
    IN  IF failing = "InsertOne"
          THEN [err |-> ErrStore, query |-> stamped, store |-> store,
                calls |-> <<"InsertOne">>]
        ELSE IF \E i \in DOMAIN store : store[i].QueryID = doc.QueryID
          THEN [err |-> NoErr, query |-> doc,
                store |-> [i \in DOMAIN store |->
                             IF store[i].QueryID = doc.QueryID THEN doc ELSE store[i]],
                calls |-> <<"InsertOne">>]
        ELSE [err |-> NoErr, query |-> doc, store |-> Append(store, doc),
              calls |-> <<"InsertOne">>]

\* EnquiryService.CreateEnquiry
CreateEnquiry(store, query, now, failing) ==
    LET stamped == [query EXCEPT !.CreatedAt = now, !.UpdatedAt = now]
        doc == IF stamped.QueryID = NilObjectID
               THEN [stamped EXCEPT !.QueryID = NewObjectID(store)]
               ELSE stamped
    IN  IF failing = "InsertOne"
          THEN [err |-> ErrStore, query |-> stamped, store |-> store,
                calls |-> <<"InsertOne">>]
        ELSE IF \E i \in DOMAIN store : store[i].QueryID = doc.QueryID
          THEN [err |-> "duplicate key", query |-> stamped, store |-> store,
                calls |-> <<"InsertOne">>]
        ELSE [err |-> NoErr, query |-> doc, store |-> Append(store, doc),
              calls |-> <<"InsertOne">>]

NoRange == <<>>

\* a filter whose day ends at 23:59:59.000
BuildFilterShortDay(enquiryType, date) ==
    LET parsed == ParseDate(date)
    IN  [enquiry_type |-> enquiryType,
         created_at |->
            IF date # <<>> /\ parsed.err = NoErr
            THEN <<DateTimeOf(parsed.year, parsed.month, parsed.day, 0, 0, 0, 0),
                   DateTimeOf(parsed.year, parsed.month, parsed.day, 23, 59, 59, 0)>>
            ELSE NoRange]

\* the bson.M filter of GetAllEnquiries
BuildFilter(enquiryType, date) ==
    LET parsed == ParseDate(date)
    IN  [enquiry_type |-> enquiryType,
         created_at |->
            IF date # <<>> /\ parsed.err = NoErr
            THEN <<DateTimeOf(parsed.year, parsed.month, parsed.day, 0, 0, 0, 0),
                   DateTimeOf(parsed.year, parsed.month, parsed.day, 23, 59, 59, 999999999)>>
            ELSE NoRange]

\* a document matches the filter
Matches(doc, filter) ==
    /\ filter.enquiry_type # "" => doc.EnquiryType = filter.enquiry_type
    /\ filter.created_at # NoRange =>
          /\ AtOrBefore(filter.created_at[1], doc.CreatedAt)
          /\ AtOrBefore(doc.CreatedAt, filter.created_at[2])

Selected(store, filter) == SelectSeq(store, LAMBDA doc : Matches(doc, filter))

SortDescending == -1

\* doc goes into docs, which are in sort order: after every document that
\* sorts before it; among equal keys the engine is free, ties says whether
\* the one read first comes first or last
RECURSIVE Insert(_, _, _, _)
Insert(doc, docs, sort, ties) ==
    IF docs = <<>> THEN <<doc>>
    ELSE LET first == Head(docs)
             leads == IF sort = SortDescending
                      THEN Before(first.CreatedAt, doc.CreatedAt)
                      ELSE Before(doc.CreatedAt, first.CreatedAt)
             equal == first.CreatedAt = doc.CreatedAt
         IN  IF leads \/ (equal /\ ties = "last") THEN <<doc>> \o docs
             ELSE <<first>> \o Insert(doc, Tail(docs), sort, ties)

RECURSIVE Sorted(_, _, _)
Sorted(docs, sort, ties) ==
    IF docs = <<>> THEN <<>>
    ELSE Insert(docs[Len(docs)], Sorted(SubSeq(docs, 1, Len(docs) - 1), sort, ties),
                sort, ties)

\* a Find whose sort option is lost: documents come in insertion order
FindUnsorted(store, filter, skip, limit, sort, ties, failing) ==
    IF failing = "Find" \/ IsNeg64(skip)
      THEN [err |-> ErrStore, docs |-> <<>>]
    ELSE LET hits == Selected(store, filter)
             rest == IF ~IsSmall(skip) \/ Small(skip) >= Len(hits) THEN <<>>
                     ELSE SubSeq(hits, Small(skip) + 1, Len(hits))
             page == IF ~IsSmall(limit) \/ Small(limit) >= Len(rest) THEN rest
                     ELSE SubSeq(rest, 1, Small(limit))
         IN  [err |-> NoErr, docs |-> page]

\* Collection.Find(ctx, filter, findOptions) and cursor.All: the server
\* rejects a negative skip
Find(store, filter, skip, limit, sort, ties, failing) ==
    IF failing = "Find" \/ IsNeg64(skip)
      THEN [err |-> ErrStore, docs |-> <<>>]
    ELSE LET hits == Sorted(Selected(store, filter), sort, ties)
             rest == IF ~IsSmall(skip) \/ Small(skip) >= Len(hits) THEN <<>>
                     ELSE SubSeq(hits, Small(skip) + 1, Len(hits))
             page == IF ~IsSmall(limit) \/ Small(limit) >= Len(rest) THEN rest
                     ELSE SubSeq(rest, 1, Small(limit))
         IN  [err |-> NoErr, docs |-> page]

\* Collection.CountDocuments(ctx, filter)
CountDocuments(store, filter, failing) ==
    IF failing = "CountDocuments" THEN [err |-> ErrStore, n |-> Zero64]
    ELSE [err |-> NoErr, n |-> Word(Len(Selected(store, filter)))]

NoList == [kind |-> "none"]

\* EnquiryService.GetAllEnquiries, the collection being `seen` when Find
\* reads it and `counted` when CountDocuments reads it
GetAllEnquiriesBetween(seen, counted, page, limit, enquiryType, date, ties, failing) ==
    LET query(filter) ==
        LET skip == Mul64(Sub64(page, One64), limit)
            call == [filter |-> filter, skip |-> skip, limit |-> limit,
                     sort |-> SortDescending]
            found == Find(seen, filter, skip, limit, SortDescending, ties, failing)
            count == CountDocuments(counted, filter, failing)
            totalCount == count.n
            totalPages == Div64(Sub64(Add64(totalCount, limit), One64), limit)
        IN  IF found.err # NoErr
              THEN [err |-> found.err, find |-> call, list |-> NoList,
                    calls |-> <<"Find">>]
            ELSE IF count.err # NoErr
              THEN [err |-> count.err, find |-> call, list |-> NoList,
                    calls |-> <<"Find", "CountDocuments">>]
            ELSE [err |-> NoErr, find |-> call, calls |-> <<"Find", "CountDocuments">>,
                  list |-> [kind |-> "list",
                            enquiries |-> found.docs,
                            pagination |->
                               [current_page |-> page,
                                total_pages |-> totalPages,
                                total_count |-> totalCount,
                                limit |-> limit,
                                has_next |-> Less64(page, totalPages),
                                has_previous |-> Less64(One64, page),
                                next_page |-> Add64(page, One64),
                                previous_page |-> Sub64(page, One64)],
                            filters |-> [enquiry_type |-> enquiryType, date |-> date]]]
    IN  query(BuildFilter(enquiryType, date))

\* EnquiryService.GetAllEnquiries with no write between its two reads
GetAllEnquiries(store, page, limit, enquiryType, date, ties, failing) ==
    GetAllEnquiriesBetween(store, store, page, limit, enquiryType, date, ties, failing)

\* ------------------------------------------------------------------------
\* EnquiryController
\* ------------------------------------------------------------------------
MaxEmailBytes == 255

\* models.Query.Validate and ValidateEmail
ValidateQuery(q) ==
    q.FirstName # "" /\ q.LastName # "" /\ q.Email # <<>> /\ q.Message # ""
ValidateQueryEmail(q) == Len(q.Email) > 0 /\ Len(q.Email) < MaxEmailBytes

\* EnquiryController.CreateEnquiry (POST /enquiry)
CreateEnquiryResponse(store, req, now, failing) ==
    LET query == [QueryID |-> req.queryid, FirstName |-> req.first_name,
                  LastName |-> req.last_name, Email |-> req.email,
                  PhoneNumber |-> "", CompanyName |-> "",
                  EnquiryType |-> req.enquiry_type, Message |-> req.message,
                  CreatedAt |-> <<0, 0>>, UpdatedAt |-> <<0, 0>>]
        created == CreateEnquiry(store, query, now, failing)
        reject(status, message, error) ==
            [res |-> Respond(status, message, error, NoData), store |-> store,
             calls |-> <<>>]
    IN  IF req.transport = "text/plain"
          THEN reject(415, "Unsupported media type", "Content-Type must be application/json")
        ELSE IF req.transport = "broken json"
          THEN reject(400, "Invalid JSON format", "json error")
        ELSE IF ~ValidateQuery(query)
          THEN reject(400, "Missing required fields",
                      "first_name, last_name, email, and message are required")
        ELSE IF ~ValidateQueryEmail(query)
          THEN reject(400, "Invalid email format", "Please provide a valid email address")
        ELSE IF ~Contains(query.Email, AtSign) \/ ~Contains(query.Email, Dot)
          THEN reject(400, "Invalid email format", "Email must contain @ and domain")
        ELSE IF created.err # NoErr
          THEN [reject(500, "Failed to create enquiry", created.err)
                  EXCEPT !.calls = created.calls]
        ELSE [res |-> Respond(201,
                        "Enquiry submitted successfully. We will get back to you soon.",
                        NoErr,
                        [kind |-> "enquiry", enquiry_id |-> created.query.QueryID,
                         submitted_at |-> created.query.CreatedAt]),
              store |-> created.store, calls |-> created.calls]

DefaultLimit == 10
MaxLimit == 100

\* the page and limit EnquiryController.GetAllEnquiries passes on
PageOf(pageStr) ==
    LET of(parsed) ==
            IF pageStr # <<>> /\ parsed.err = NoErr /\ Less64(Zero64, parsed.n)
            THEN parsed.n ELSE One64
    IN  of(ParseInt(pageStr))

\* a limit below 1 is raised to 1
LimitClamped(limitStr) ==
    LET of(parsed) ==
            IF limitStr # <<>> /\ parsed.err = NoErr
            THEN (IF Less64(Word(MaxLimit), parsed.n) THEN Word(MaxLimit)
                  ELSE IF Less64(parsed.n, One64) THEN One64 ELSE parsed.n)
            ELSE Word(DefaultLimit)
    IN  of(ParseInt(limitStr))

LimitOf(limitStr) ==
    LET of(parsed) ==
            IF limitStr # <<>> /\ parsed.err = NoErr /\ Less64(Zero64, parsed.n)
            THEN (IF Less64(Word(MaxLimit), parsed.n) THEN Word(MaxLimit) ELSE parsed.n)
            ELSE Word(DefaultLimit)
    IN  of(ParseInt(limitStr))

\* EnquiryController.GetAllEnquiries (GET /enquiries): the response, with
\* the arguments of the service call and of the Find it makes
GetAllEnquiriesResponseBetween(seen, counted, req, ties, failing) ==
    LET answer(call, got) ==
            [call |-> call, find |-> got.find, calls |-> got.calls,
             res |-> IF got.err # NoErr
                     THEN Respond(500, "Failed to retrieve enquiries", got.err, NoData)
                     ELSE Respond(200, "Enquiries retrieved successfully", NoErr,
                                  got.list)]
        serve(page, limit) ==
            answer([page |-> page, limit |-> limit,
                    enquiryType |-> req.enquiry_type, date |-> req.date],
                   GetAllEnquiriesBetween(seen, counted, page, limit,
                                          req.enquiry_type, req.date, ties, failing))
    IN  serve(PageOf(req.page), LimitOf(req.limit))

\* EnquiryController.GetAllEnquiries served with no write in between
GetAllEnquiriesResponse(store, req, ties, failing) ==
    GetAllEnquiriesResponseBetween(store, store, req, ties, failing)

ObjectIDBytes == 12
HexLen == 24
ErrInvalidHex == "the provided hex string is not a valid ObjectID"

\* encoding/hex fromHexChar: '0'..'9', 'a'..'f', 'A'..'F'; -1 for any other
HexDigit(c) ==
    IF c >= 48 /\ c <= 57 THEN c - 48
    ELSE IF c >= 97 /\ c <= 102 THEN c - 97 + 10
    ELSE IF c >= 65 /\ c <= 70 THEN c - 65 + 10
    ELSE -1

\* primitive.ObjectIDFromHex: exactly 24 bytes of text, every one a hex
\* digit, decoded two digits to the byte
ObjectIDFromHex(s) ==
    IF ByteLen(s) # HexLen
      THEN [err |-> ErrInvalidHex, oid |-> <<>>]
    ELSE IF \E i \in 1..Len(s) : HexDigit(s[i]) = -1
      THEN [err |-> ErrInvalidHex, oid |-> <<>>]
    ELSE [err |-> NoErr,
          oid |-> [k \in 1..ObjectIDBytes |->
                     16 * HexDigit(s[2 * k - 1]) + HexDigit(s[2 * k])]]

\* the twelve bytes of a stored id (ids of the model are small numbers, kept
\* in the low bytes)
ObjectIDOf(n) ==
    [k \in 1..ObjectIDBytes |->
       IF k = ObjectIDBytes THEN n % 256
       ELSE IF k = ObjectIDBytes - 1 THEN (n \div 256) % 256
       ELSE 0]

\* a lookup that is tried once more after it failed
GetEnquiryByIDRetry(store, oid, failing) ==
    IF failing = "FindOne"
      THEN [err |-> ErrStore, at |-> {}, calls |-> <<"FindOne", "FindOne">>]
    ELSE [err |-> NoErr,
          at |-> {i \in DOMAIN store : ObjectIDOf(store[i].QueryID) = oid},
          calls |-> <<"FindOne">>]

\* EnquiryService.GetEnquiryByID: FindOne by _id; the positions of the
\* document found (none when there is no such document)
GetEnquiryByID(store, oid, failing) ==
    IF failing = "FindOne"
      THEN [err |-> ErrStore, at |-> {}, calls |-> <<"FindOne">>]
    ELSE [err |-> NoErr,
          at |-> {i \in DOMAIN store : ObjectIDOf(store[i].QueryID) = oid},
          calls |-> <<"FindOne">>]

\* the handler with a malformed id answered like an unknown one
GetEnquiryByIDNotFound(store, idStr, failing) ==
    LET parsed == ObjectIDFromHex(idStr)
        found == GetEnquiryByID(store, parsed.oid, failing)
    IN  IF parsed.err # NoErr
          THEN [res |-> Respond(404, "Enquiry not found",
                                "No enquiry found with the provided ID", NoData),
                calls |-> <<>>]
        ELSE IF found.err # NoErr
          THEN [res |-> Respond(500, "Failed to retrieve enquiry", found.err, NoData),
                calls |-> found.calls]
        ELSE IF found.at = {}
          THEN [res |-> Respond(404, "Enquiry not found",
                                "No enquiry found with the provided ID", NoData),
                calls |-> found.calls]
        ELSE [res |-> Respond(200, "Enquiry retrieved successfully", NoErr,
                              [kind |-> "enquiry",
                               enquiry |-> store[CHOOSE i \in found.at : TRUE]]),
              calls |-> found.calls]

\* EnquiryController.GetEnquiryByID (GET /enquiries/{id})
GetEnquiryByIDResponse(store, idStr, failing) ==
    LET parsed == ObjectIDFromHex(idStr)
        found == GetEnquiryByID(store, parsed.oid, failing)
    IN  IF parsed.err # NoErr
          THEN [res |-> Respond(400, "Invalid enquiry ID",
                                "Please provide a valid enquiry ID", NoData),
                calls |-> <<>>]
        ELSE IF found.err # NoErr
          THEN [res |-> Respond(500, "Failed to retrieve enquiry", found.err, NoData),
                calls |-> found.calls]
        ELSE IF found.at = {}
          THEN [res |-> Respond(404, "Enquiry not found",
                                "No enquiry found with the provided ID", NoData),
                calls |-> found.calls]
        ELSE [res |-> Respond(200, "Enquiry retrieved successfully", NoErr,
                              [kind |-> "enquiry",
                               enquiry |-> store[CHOOSE i \in found.at : TRUE]]),
              calls |-> found.calls]

\* "000000000000000000000001"
IdOne == [i \in 1..24 |-> IF i = 24 THEN 49 ELSE 48]
\* "0000000000000000000003E7" (ClientObjectID, upper-case digits)
IdClient == [i \in 1..24 |-> IF i = 22 THEN 51 ELSE IF i = 23 THEN 69
                              ELSE IF i = 24 THEN 55 ELSE 48]
\* "0000000000000000000000ff" (no such enquiry)
IdUnknown == [i \in 1..24 |-> IF i >= 23 THEN 102 ELSE 48]
\* "abc"
IdShort == <<97, 98, 99>>
\* "00000000000000000000000g"
IdNotHex == [i \in 1..24 |-> IF i = 24 THEN 103 ELSE 48]
\* 24 characters, the last one "é" (two bytes)
IdWide == [i \in 1..24 |-> IF i = 24 THEN 233 ELSE 48]
\* "0000000000000000000000é": 23 characters, 24 bytes
IdWideBytes == [i \in 1..23 |-> IF i = 23 THEN 233 ELSE 48]
IdStrs == {IdOne, IdClient, IdUnknown, IdShort, IdNotHex, IdWide, IdWideBytes}

\* "2024-02-29"
DateLeapDay == <<50, 48, 50, 52, 45, 48, 50, 45, 50, 57>>
\* "2024-03-01"
DateNextDay == <<50, 48, 50, 52, 45, 48, 51, 45, 48, 49>>
\* "2024-13-40"
DateInvalid == <<50, 48, 50, 52, 45, 49, 51, 45, 52, 48>>
\* "2023-02-29"
DateNoLeapDay == <<50, 48, 50, 51, 45, 48, 50, 45, 50, 57>>
\* "2"
PageTwo == <<50>>
\* "3"
PageThree == <<51>>
\* "0"
PageZero == <<48>>
\* "-1"
PageMinusOne == <<45, 49>>
\* "x"
PageText == <<120>>
\* "4611686018427387905"
PageHuge == <<52, 54, 49, 49, 54, 56, 54, 48, 49, 56, 52, 50, 55, 51, 56, 55, 57, 48, 53>>
\* "0"
LimitZero == <<48>>
\* "-5"
LimitMinusFive == <<45, 53>>
\* "2"
LimitTwo == <<50>>
\* "100"
LimitHundred == <<49, 48, 48>>
\* "101"
LimitHundredOne == <<49, 48, 49>>
\* "abc"
LimitText == <<97, 98, 99>>
\* "9223372036854775808"
LimitTooBig == <<57, 50, 50, 51, 51, 55, 50, 48, 51, 54, 56, 53, 52, 55, 55, 53, 56, 48, 56>>

\* ------------------------------------------------------------------------
\* The enquiry endpoints as a state machine
\* ------------------------------------------------------------------------
MaxEnquiries == 2
MaxElapsed == 2
BacklogLen == 5

\* the documents in the collection when the server starts: submitted on
\* 2024-02-29 from 00:00:00.000 on, two per millisecond, after a first one
\* in the last millisecond of the day before
Backlog(n) ==
    [i \in 1..n |->
        [QueryID |-> i, FirstName |-> "Jo", LastName |-> "Doe",
         Email |-> EmailAbXCom, PhoneNumber |-> "", CompanyName |-> "",
         EnquiryType |-> IF i % 3 = 0 THEN TypeSales ELSE TypeGeneral,
         Message |-> "hello",
         CreatedAt |-> IF i = 1 THEN DateTimeOf(2024, 2, 28, 23, 59, 59, 999000000)
                       ELSE <<StartOfClock[1], (i - 2) \div 2>>,
         UpdatedAt |-> IF i = 1 THEN DateTimeOf(2024, 2, 28, 23, 59, 59, 999000000)
                       ELSE <<StartOfClock[1], (i - 2) \div 2>>]]

EarlierEnquiries == {<<>>, Backlog(BacklogLen)}

SinceStart(store) ==
    Cardinality({i \in DOMAIN store : AtOrBefore(StartOfClock, store[i].CreatedAt)})

EnquiryRequests ==
    [transport : Transports, first_name : {"Jo", ""}, last_name : {"Doe"},
     email : {EmailNoAt, EmailAbXCom}, message : {"hello"},
     enquiry_type : {TypeGeneral},
     queryid : {NilObjectID, 1}]

PageStrs == {<<>>, PageTwo, PageThree, PageZero, PageMinusOne, PageText, PageHuge}
LimitStrs == {<<>>, LimitZero, LimitMinusFive, LimitTwo, LimitHundred,
              LimitHundredOne, LimitText, LimitTooBig}
TypeStrs == {"", TypeGeneral, "gen"}
DateStrs == {<<>>, DateLeapDay, DateNextDay, DateInvalid, DateNoLeapDay}

\* the query string of GET /enquiries; sort is a parameter the handler
\* does not read
ListRequests ==
    [page : PageStrs, limit : LimitStrs, enquiry_type : {""}, date : {<<>>},
     sort : {""}]
    \cup [page : {<<>>, PageTwo}, limit : {<<>>, LimitTwo}, enquiry_type : TypeStrs,
          date : DateStrs, sort : {""}]
    \cup [page : {<<>>}, limit : {LimitTwo}, enquiry_type : {""}, date : {<<>>},
          sort : {"created_at"}]

\* time passes between two requests
Elapse ==
    /\ out = Idle
    /\ clock < MaxElapsed
    /\ clock' = clock + 1
    /\ UNCHANGED <<issued, out, users, procs, email, derived, enquiries>>

PostEnquiry ==
    /\ out = Idle
    /\ SinceStart(enquiries) < MaxEnquiries
    /\ \E req \in EnquiryRequests : \E failing \in {"InsertOne", NoFailure} :
          \E r \in {CreateEnquiryResponse(enquiries, req, Now, failing)} :
              /\ enquiries' = r.store
              /\ out' = [op |-> "CreateEnquiry", req |-> req, failing |-> failing,
                         before |-> enquiries, calls |-> r.calls, res |-> r.res]
    /\ UNCHANGED <<clock, issued, users, procs, email, derived>>

GetEnquiries ==
    /\ out = Idle
    /\ \E req \in ListRequests : \E ties \in {"first", "last"} :
       \E failing \in {"Find", "CountDocuments", NoFailure} :
          /\ failing # NoFailure => req.page = <<>> /\ req.limit = <<>>
          /\ \E r \in {GetAllEnquiriesResponse(enquiries, req, ties, failing)} :
                 out' = [op |-> "GetAllEnquiries", req |-> req, ties |-> ties,
                         failing |-> failing, call |-> r.call, find |-> r.find,
                         calls |-> r.calls,
                         res |-> r.res]
    /\ UNCHANGED <<clock, issued, users, procs, email, derived, enquiries>>

GetEnquiry ==
    /\ out = Idle
    /\ \E id \in IdStrs : \E failing \in {"FindOne", NoFailure} :
          \E r \in {GetEnquiryByIDResponse(enquiries, id, failing)} :
              out' = [op |-> "GetEnquiryByID", id |-> id, failing |-> failing,
                      calls |-> r.calls, res |-> r.res]
    /\ UNCHANGED <<clock, issued, users, procs, email, derived, enquiries>>

InitEnquiries ==
    /\ enquiries \in EarlierEnquiries
    /\ clock = 0
    /\ issued = {}
    /\ out = Idle
    /\ users = <<>>
    /\ procs = <<>>
    /\ email = <<>>
    /\ derived = NotRun

NextEnquiries == Elapse \/ PostEnquiry \/ GetEnquiries \/ GetEnquiry \/ Return

SpecEnquiries == InitEnquiries /\ [][NextEnquiries]_vars

\* ------------------------------------------------------------------------
\* Claims about the enquiry endpoints
\* ------------------------------------------------------------------------
EnquiryCreated == out.op = "CreateEnquiry" /\ out.res.status = 201
Listed == out.op = "GetAllEnquiries"
ListedOk == Listed /\ out.res.status = 200

\* C13: enquiries are append-only: in every step every stored enquiry stays
\* where it is with every field unchanged, the collection never shrinks,
\* and a successful POST /enquiry adds exactly its document at the end.
C13_AppendOnly ==
    [][/\ Len(enquiries') >= Len(enquiries)
       /\ \A i \in DOMAIN enquiries : enquiries'[i] = enquiries[i]
       /\ (out = Idle /\ out'.op = "CreateEnquiry") =>
             IF out'.res.status = 201
             THEN /\ Len(enquiries') = Len(enquiries) + 1
                  /\ enquiries'[Len(enquiries')].QueryID = out'.res.data.enquiry_id
                  /\ enquiries'[Len(enquiries')].CreatedAt = out'.res.data.submitted_at
             ELSE enquiries' = enquiries]_vars

\* C13 witness: an enquiry was stored behind earlier ones, and a later
\* request that names the id of a stored enquiry was answered
C13_Witness ==
    /\ out.op = "CreateEnquiry"
    /\ out.req.queryid = 1
    /\ out.req.transport = "json"
    /\ out.res.status = 500
    /\ Len(enquiries) > BacklogLen
    /\ enquiries[1].QueryID = 1

\* the text of a number without its sign
Signless(s) == IF s # <<>> /\ Head(s) \in {Plus, Minus} THEN Tail(s) ELSE s

\* s writes an integer in decimal
IsInteger(s) == Signless(s) # <<>> /\ \A i \in DOMAIN Signless(s) : IsDigit(Signless(s)[i])

RECURSIVE StripZeros(_)
StripZeros(s) ==
    IF Len(s) > 1 /\ Head(s) = DigitZero THEN StripZeros(Tail(s)) ELSE s

\* the magnitude an integer text writes, without leading zeros
Magnitude(s) == StripZeros(Signless(s))

\* "9223372036854775807"
MaxInt64Text == <<57, 50, 50, 51, 51, 55, 50, 48, 51, 54, 56, 53, 52, 55, 55, 53, 56, 48, 55>>
\* "100"
HundredText == <<49, 48, 48>>

\* a <= b for two magnitudes
RECURSIVE DigitsLE(_, _)
DigitsLE(a, b) ==
    IF Len(a) # Len(b) THEN Len(a) < Len(b)
    ELSE IF a = <<>> THEN TRUE
    ELSE IF Head(a) # Head(b) THEN Head(a) < Head(b)
    ELSE DigitsLE(Tail(a), Tail(b))

\* s writes an integer of at least 1
IsPositiveText(s) ==
    IsInteger(s) /\ Head(s) # Minus /\ Magnitude(s) # <<DigitZero>>

\* s writes a positive integer that a signed 64-bit integer holds
FitsInt64(s) == IsPositiveText(s) /\ DigitsLE(Magnitude(s), MaxInt64Text)

\* the decimal text of an int64 that is not negative
RECURSIVE Format64(_)
Format64(a) ==
    LET q == Div64(a, Ten64)
        r == Small(Sub64(a, Mul64(q, Ten64)))
    IN  IF q = Zero64 THEN <<DigitZero + r>>
        ELSE Format64(q) \o <<DigitZero + r>>

PageInRange(page) == Less64(Zero64, page)
LimitInRange(limit) == Less64(Zero64, limit) /\ ~Less64(Word(MaxLimit), limit)

\* C14 as stated: page >= 1 and 1 <= limit <= 100; page is the supplied
\* value when that is a positive integer and 1 when absent or non-positive;
\* limit is 10 when absent, and a supplied limit is clamped to 1..100 (above
\* 100 becomes 100, below 1 becomes 1).
C14_AsStated ==
    Listed =>
       LET page == out.call.page
           limit == out.call.limit
       IN  /\ PageInRange(page) /\ LimitInRange(limit)
           /\ IsPositiveText(out.req.page) => Format64(page) = Magnitude(out.req.page)
           /\ (out.req.page = <<>> \/ (IsInteger(out.req.page) /\ ~IsPositiveText(out.req.page)))
                 => page = One64
           /\ out.req.limit = <<>> => limit = Word(DefaultLimit)
           /\ IsInteger(out.req.limit) =>
                 IF ~IsPositiveText(out.req.limit) THEN limit = One64
                 ELSE IF DigitsLE(Magnitude(out.req.limit), HundredText)
                      THEN Format64(limit) = Magnitude(out.req.limit)
                 ELSE limit = Word(MaxLimit)

\* C14: the values passed to the query engine satisfy page >= 1 and
\* 1 <= limit <= 100. page is the supplied value when that writes a
\* positive integer a signed 64-bit integer holds, and 1 otherwise. limit
\* is the supplied value when that writes an integer from 1 to 100, 100
\* when it writes a larger integer a signed 64-bit integer holds, and 10
\* otherwise (absent, not a number, below 1, or beyond 64 bits).
C14_PageAndLimit ==
    Listed =>
       LET page == out.call.page
           limit == out.call.limit
       IN  /\ PageInRange(page) /\ LimitInRange(limit)
           /\ IF FitsInt64(out.req.page)
              THEN Format64(page) = Magnitude(out.req.page)
              ELSE page = One64
           /\ IF ~FitsInt64(out.req.limit) THEN limit = Word(DefaultLimit)
              ELSE IF DigitsLE(Magnitude(out.req.limit), HundredText)
                   THEN Format64(limit) = Magnitude(out.req.limit)
              ELSE limit = Word(MaxLimit)

\* C14 witness: a limit below 1 was supplied and 10 was passed on, with a
\* supplied page passed on as it is
C14_Witness ==
    /\ Listed
    /\ out.req.limit = LimitZero
    /\ out.call.limit = Word(DefaultLimit)
    /\ out.req.page = PageThree
    /\ out.call.page = Word(3)

\* an int64 written in sixteen bytes
Extend(a) == a \o [i \in 1..Width |-> IF IsNeg64(a) THEN Base - 1 ELSE 0]

\* the product of two int64 that are not negative, in sixteen bytes: no
\* such product wraps
Product(a, b) == MulFrom(Extend(a), Extend(b), 1, 0, 2 * Width)

\* n = ceil(total / limit) for small numbers
IsCeil(n, total, limit) ==
    /\ n * limit >= total
    /\ n > 0 => (n - 1) * limit < total

\* C15: for every page >= 1, limit in 1..100 and total count >= 0,
\* skip = (page-1)*limit, totalPages = ceil(totalCount/limit),
\* hasNext = (page < totalPages), hasPrevious = (page > 1),
\* nextPage = page+1 and previousPage = page-1; with total 0, totalPages is
\* 0 and hasNext is false.
C15_PaginationMath ==
    Listed =>
       LET page == out.call.page
           limit == out.call.limit
       IN  /\ Extend(out.find.skip) = Product(Sub64(page, One64), limit)
           /\ ListedOk =>
                 LET p == out.res.data.pagination
                 IN  /\ IsSmall(p.total_pages) /\ IsSmall(p.total_count)
                     /\ IsCeil(Small(p.total_pages), Small(p.total_count), Small(limit))
                     /\ p.has_next = Less64(page, p.total_pages)
                     /\ p.has_previous = Less64(One64, page)
                     /\ Less64(page, p.next_page) /\ Sub64(p.next_page, page) = One64
                     /\ Less64(p.previous_page, page) /\ Sub64(page, p.previous_page) = One64
                     /\ p.total_count = Zero64 => p.total_pages = Zero64 /\ ~p.has_next

Items == out.res.data.enquiries

\* C16: the items of every list response are in descending order of
\* creation timestamp, whatever the page, limit and filters, and every
\* request, also one that carries a sort parameter, is run with the
\* descending sort.
C16_NewestFirst ==
    /\ Listed => out.find.sort = SortDescending
    /\ ListedOk =>
          \A i \in DOMAIN Items : \A j \in DOMAIN Items :
             i < j => AtOrBefore(Items[j].CreatedAt, Items[i].CreatedAt)

\* C16 witness: a request that asks for ascending order is answered with
\* two enquiries, the later one first
C16_Witness ==
    /\ ListedOk
    /\ out.req.sort = "created_at"
    /\ Len(Items) = 2
    /\ Before(Items[2].CreatedAt, Items[1].CreatedAt)

\* the calendar date (UTC) of a day number: <<year, month, day>>
CivilFromDays(days) ==
    LET z == days + 719468
        era == z \div 146097
        doe == z - era * 146097
        yoe == (doe - doe \div 1460 + doe \div 36524 - doe \div 146096) \div 365
        doy == doe - (365 * yoe + yoe \div 4 - yoe \div 100)
        mp == (5 * doy + 2) \div 153
        d == doy - (153 * mp + 2) \div 5 + 1
        m == IF mp < 10 THEN mp + 3 ELSE mp - 9
    IN  <<yoe + era * 400 + (IF m <= 2 THEN 1 ELSE 0), m, d>>

\* n written with two digits
TwoDigitText(n) == <<DigitZero + (n \div 10), DigitZero + (n % 10)>>

\* a calendar date written YYYY-MM-DD
Written(date) ==
    TwoDigitText(date[1] \div 100) \o TwoDigitText(date[1] % 100) \o <<Minus>>
    \o TwoDigitText(date[2]) \o <<Minus>> \o TwoDigitText(date[3])

\* s writes a calendar date as YYYY-MM-DD
IsCalendarDate(s) ==
    /\ Len(s) = 10
    /\ \A i \in {1, 2, 3, 4, 6, 7, 9, 10} : IsDigit(s[i])
    /\ s[5] = Minus /\ s[8] = Minus
    /\ TwoDigits(s, 6) \in 1..12
    /\ TwoDigits(s, 9) \in 1..DaysIn(TwoDigits(s, 6), TwoDigits(s, 1) * 100 + TwoDigits(s, 3))

\* doc satisfies every active constraint of the request: the type when one
\* is given, and the UTC calendar day of its creation when the date is one
Satisfies(doc, req) ==
    /\ req.enquiry_type # "" => doc.EnquiryType = req.enquiry_type
    /\ IsCalendarDate(req.date) => Written(CivilFromDays(doc.CreatedAt[1])) = req.date

SatisfyingSet == {i \in DOMAIN enquiries : Satisfies(enquiries[i], out.req)}

\* the number of items of the page: what is left after skip, up to limit
PageLength(count, skip, limit) ==
    IF ~IsSmall(skip) \/ Small(skip) >= count THEN 0
    ELSE IF count - Small(skip) < Small(limit) THEN count - Small(skip)
    ELSE Small(limit)

\* C17: a list response selects exactly the stored enquiries that satisfy
\* every active constraint (exact type when enquiryType is given; created
\* on that UTC calendar day, first and last instant included, when date is
\* a YYYY-MM-DD date): every item is one of them, each at most once, the
\* page holds as many of them as skip and limit leave, and the total count
\* is their number.
C17_SelectedSet ==
    ListedOk =>
       /\ \A k \in DOMAIN Items :
             \E i \in SatisfyingSet : enquiries[i] = Items[k]
       /\ \A k \in DOMAIN Items : \A l \in DOMAIN Items :
             k # l => Items[k].QueryID # Items[l].QueryID
       /\ Len(Items) = PageLength(Cardinality(SatisfyingSet), out.find.skip,
                                  out.find.limit)
       /\ out.res.data.pagination.total_count = Word(Cardinality(SatisfyingSet))

\* C17 witness: type and date are both given; the page holds an enquiry of
\* the first and one of the last millisecond of the day, and the store
\* holds enquiries of another day and of another type
C17_Witness ==
    /\ ListedOk
    /\ out.req.enquiry_type = TypeGeneral
    /\ out.req.date = DateLeapDay
    /\ \E k \in DOMAIN Items : Items[k].CreatedAt[2] = 0
    /\ \E k \in DOMAIN Items : Items[k].CreatedAt[2] = DayMs - 1
    /\ \E i \in DOMAIN enquiries : enquiries[i].EnquiryType = TypeSales
    /\ \E i \in DOMAIN enquiries : enquiries[i].CreatedAt[1] # StartOfClock[1]

\* the response to the request of out sent without its date parameter
WithoutDate ==
    GetAllEnquiriesResponse(enquiries, [out.req EXCEPT !.date = <<>>],
                            out.ties, out.failing).res

\* C18: a date parameter that is not a YYYY-MM-DD calendar date is dropped
\* silently: the request is answered as the same request without a date
\* parameter is, with the same status, the same items and the same
\* pagination, and succeeds whenever the store works.
C18_InvalidDateDropped ==
    (Listed /\ out.req.date # <<>> /\ ~IsCalendarDate(out.req.date)) =>
       /\ out.res.status = WithoutDate.status
       /\ out.failing = NoFailure /\ ~IsNeg64(out.find.skip) => out.res.status = 200
       /\ out.res.status = 200 =>
             /\ Items = WithoutDate.data.enquiries
             /\ out.res.data.pagination = WithoutDate.data.pagination
             /\ out.find.filter.created_at = NoRange

\* C18 witness: '2024-13-40' is sent to a store that holds enquiries of
\* several days, and all of them are counted
C18_Witness ==
    /\ ListedOk
    /\ out.req.date = DateInvalid
    /\ Len(Items) > 1
    /\ out.res.data.pagination.total_count = Word(Len(enquiries))
    /\ \E i \in DOMAIN enquiries : enquiries[i].CreatedAt[1] # enquiries[1].CreatedAt[1]

\* the account of the request's email in the store before the request
Account == FindByEmail(out.before, out.req.email)

\* the body reached the handler's authentication: JSON with an email that
\* has "@" and "." and a password that is not empty
SignInWellFormed ==
    /\ out.req.transport = "json"
    /\ out.req.password # <<>>
    /\ Contains(out.req.email, AtSign) /\ Contains(out.req.email, Dot)

TokenIssued == out.res.data # NoData

\* C19: sign-in issues a token only when a user with the given email
\* exists, is active and the password verifies against the stored hash. A
\* well-formed request whose lookup the store answers ends: unknown email
\* -> 401 'Email not found'; inactive account -> 403 'Account deactivated'
\* whether or not the password is correct; active account with a wrong
\* password -> 401 'Wrong password'; otherwise 200 with the token.
C19_SignInOutcome ==
    SignInServed =>
       /\ TokenIssued <=> out.res.status = 200
       /\ TokenIssued =>
             /\ Account # NoUser
             /\ out.before[Account].IsActive
             /\ out.before[Account].Password = HashPassword(out.req.password)
             /\ out.res.data.user.Email = out.req.email
             /\ out.res.data.token.payload.email = out.req.email
             /\ out.res.data.token.payload.role = out.before[Account].Role
       /\ (SignInWellFormed /\ out.failing # "GetUserByEmail") =>
             IF Account = NoUser
               THEN out.res.status = 401 /\ out.res.message = "Email not found"
             ELSE IF ~out.before[Account].IsActive
               THEN out.res.status = 403 /\ out.res.message = "Account deactivated"
             ELSE IF out.before[Account].Password # HashPassword(out.req.password)
               THEN out.res.status = 401 /\ out.res.message = "Wrong password"
             ELSE out.res.status = 200

\* C19 witness: a deactivated account signs in with its correct password
\* and is refused
C19_Witness ==
    /\ SignInServed
    /\ Account # NoUser
    /\ ~out.before[Account].IsActive
    /\ out.before[Account].Password = HashPassword(out.req.password)
    /\ out.res.status = 403

\* the checks the claim names, on the body of the request
FieldMissing ==
    out.req.first_name = "" \/ out.req.last_name = "" \/ out.req.email = <<>>
    \/ out.req.password = <<>>
PasswordTooShort == Len(out.req.password) < 8
RoleRefused == out.req.role \notin {RoleAdmin, RoleSuperAdmin}
EmailTaken == \E i \in DOMAIN out.before : out.before[i].Email = out.req.email
EmailRefused == ~Contains(out.req.email, AtSign) \/ ~Contains(out.req.email, Dot)

\* C20: a create-user request that is rejected never inserts: a JSON body
\* with a missing required field, a password shorter than 8 characters or a
\* role other than admin or super-admin yields 400, and an otherwise
\* acceptable body whose email belongs to a stored user yields 409, each
\* with the store unchanged; a user is inserted only when the request
\* passes all of these checks.
C20_RejectedNeverInserts ==
    CreateServed =>
       /\ out.res.status # 201 => users = out.before
       /\ out.req.transport = "json" =>
             /\ (FieldMissing \/ PasswordTooShort \/ RoleRefused) =>
                   out.res.status = 400 /\ users = out.before
             /\ (~FieldMissing /\ ~PasswordTooShort /\ ~RoleRefused /\ ~EmailRefused
                 /\ EmailTaken /\ out.failing # "GetUserByEmail") =>
                   out.res.status = 409 /\ users = out.before
       /\ users # out.before =>
             /\ ~FieldMissing /\ ~PasswordTooShort /\ ~RoleRefused /\ ~EmailTaken
             /\ out.res.status = 201
             /\ Len(users) = Len(out.before) + 1

\* ------------------------------------------------------------------------
\* Claims about GET /enquiries/{id}
\* ------------------------------------------------------------------------
GotByID == out.op = "GetEnquiryByID"
HexDigits == (48..57) \cup (97..102) \cup (65..70)
WellFormedId(s) == Len(s) = 24 /\ \A i \in 1..24 : s[i] \in HexDigits
RECURSIVE HexNumber(_)
HexNumber(s) ==
    IF s = <<>> THEN 0
    ELSE LET c == s[Len(s)]
             v == IF c <= 57 THEN c - 48 ELSE IF c >= 97 THEN c - 87 ELSE c - 55
         IN  v + 16 * HexNumber(SubSeq(s, 1, Len(s) - 1))
\* the enquiries whose id the well-formed text s writes
StoredUnder(s) ==
    {i \in DOMAIN enquiries :
        /\ \A k \in 1..18 : s[k] = 48
        /\ HexNumber(SubSeq(s, 19, 24)) = enquiries[i].QueryID}

\* C21 as stated: when the store answers, GET /enquiries/{id} gives 404 for
\* a malformed id and for an id no enquiry has, and 200 with the enquiry
\* only when an enquiry with that id is stored.
C21_AsStated ==
    (GotByID /\ out.failing = NoFailure) =>
        /\ ~WellFormedId(out.id) => out.res.status = 404
        /\ (WellFormedId(out.id) /\ StoredUnder(out.id) = {}) => out.res.status = 404
        /\ out.res.status = 200 =>
              /\ WellFormedId(out.id)
              /\ \E i \in StoredUnder(out.id) : out.res.data.enquiry = enquiries[i]

\* C21: GET /enquiries/{id} answers 400 "Invalid enquiry ID" when the id is
\* not 24 hex digits, 404 when the id is well formed and no enquiry has it,
\* and 200 with that enquiry exactly when a well-formed id names a stored
\* enquiry and the store answers; a failing store lookup gives 500.
C21_GetByID ==
    GotByID =>
        /\ ~WellFormedId(out.id) => out.res.status = 400
        /\ (WellFormedId(out.id) /\ out.failing = "FindOne") => out.res.status = 500
        /\ (WellFormedId(out.id) /\ out.failing = NoFailure /\ StoredUnder(out.id) = {})
              => out.res.status = 404
        /\ (WellFormedId(out.id) /\ out.failing = NoFailure /\ StoredUnder(out.id) # {})
              => /\ out.res.status = 200
                 /\ \E i \in StoredUnder(out.id) : out.res.data.enquiry = enquiries[i]

C21_Witness ==
    /\ GotByID
    /\ out.failing = NoFailure
    /\ ~WellFormedId(out.id)
    /\ Len(out.id) = 24
    /\ out.res.status = 400
    /\ enquiries # <<>>

\* ------------------------------------------------------------------------
\* Claims about the user store as a whole
\* ------------------------------------------------------------------------
\* the fields of a stored user that no request may change
Fixed(u) == [Email |-> u.Email, Username |-> u.Username, Password |-> u.Password,
             Role |-> u.Role, IsActive |-> u.IsActive, CreatedAt |-> u.CreatedAt]
NotImplementedTexts ==
    {"GET method not implemented for this endpoint",
     "PUT method not implemented for this endpoint",
     "DELETE method not implemented for this endpoint"}

InitStore ==
    /\ InitRest
    /\ clock = 0
    /\ issued = {}
    /\ out = Idle
    /\ enquiries = <<>>

EnquiryRequest == users = <<>> /\ (PostEnquiry \/ GetEnquiries \/ GetEnquiry)
UserRequest == enquiries = <<>> /\ (PostCreateUser \/ PostSignIn \/ GetUsers)

NextStore == EnquiryRequest \/ UserRequest \/ Return

SpecStore == InitStore /\ [][NextStore]_vars

StoreBacked ==
    {"CreateEnquiry", "GetAllEnquiries", "GetEnquiryByID",
     "CreateUser", "GetAllUsers", "SignIn"}
StoreCallNames ==
    {"InsertOne", "Find", "CountDocuments", "FindOne", "GetUserByEmail",
     "GetUserByUsername", "UpdateOne", "GetUserByID"}
\* the request made the call that was set to fail
StoreCallFailed ==
    /\ out.op \in StoreBacked
    /\ out.failing \in StoreCallNames
    /\ \E k \in DOMAIN out.calls : out.calls[k] = out.failing
\* the failing call is made once and is the last store call of the request
EndsAtFailure ==
    /\ out.calls[Len(out.calls)] = out.failing
    /\ Cardinality({k \in DOMAIN out.calls : out.calls[k] = out.failing}) = 1
\* the store calls of the last-login update inside a sign-in
LastLoginUpdate == out.op = "SignIn" /\ out.failing \in {"UpdateOne", "GetUserByID"}

\* C23 as stated: whenever a store call of a request fails, the request is
\* answered 500, the call is not made again and no store call follows it.
C23_AsStated ==
    StoreCallFailed => out.res.status = 500 /\ EndsAtFailure

\* C23: whenever a store call of a request fails, the call is not made
\* again and no store call follows it, and the request is answered 500,
\* except that a sign-in whose last-login update fails (the UpdateOne or
\* the read-back after it) is still answered 200.
C23_FailureIsTerminal ==
    StoreCallFailed =>
        /\ EndsAtFailure
        /\ IF LastLoginUpdate THEN out.res.status = 200 ELSE out.res.status = 500

C23_Witness ==
    /\ out.op = "SignIn"
    /\ out.failing = "UpdateOne"
    /\ out.calls = <<"GetUserByEmail", "UpdateOne">>
    /\ out.res.status = 200
    /\ users = out.before

\* ------------------------------------------------------------------------
\* RoleMiddleware on its own: a request arrives at the role check with any
\* role attached, or with none
\* ------------------------------------------------------------------------
CheckRole ==
    /\ out = Idle
    /\ \E requiredRole \in RoleStrings, ctxRole \in RoleStrings \cup {NoRole},
          method \in Methods, handler \in {"GetAllUsers", "GetUser"},
          storeOk \in BOOLEAN :
          out' = [op |-> "RoleMiddleware", requiredRole |-> requiredRole,
                  ctxRole |-> ctxRole, method |-> method,
                  res |-> RoleMiddleware(requiredRole, ctxRole, method, handler,
                                         storeOk)]
    /\ UNCHANGED <<clock, issued, users, procs, email, derived, enquiries>>

InitRole ==
    /\ clock = 0
    /\ issued = {}
    /\ out = Idle
    /\ InitRest

NextRole == CheckRole \/ Return

SpecRole == InitRole /\ [][NextRole]_vars

RoleChecked == out.op = "RoleMiddleware"
LetThrough == out.res.by # "RoleMiddleware"

\* C24: RoleMiddleware(required) passes the request on exactly when the
\* attached role is required or super-admin, answers 403 for every other
\* attached role, and answers 500 "User role not found in context" when no
\* role is attached.
C24_RoleCheck ==
    RoleChecked =>
        /\ LetThrough <=> (/\ out.ctxRole # NoRole
                           /\ out.ctxRole \in {out.requiredRole, RoleSuperAdmin})
        /\ (out.ctxRole # NoRole /\ out.ctxRole \notin {out.requiredRole, RoleSuperAdmin})
              => out.res.status = 403
        /\ out.ctxRole = NoRole =>
              /\ out.res.status = 500
              /\ out.res.message = "User role not found in context"

C24_Witness ==
    /\ RoleChecked
    /\ out.requiredRole = "viewer"
    /\ out.ctxRole = RoleSuperAdmin
    /\ LetThrough
    /\ out.res.handler = "GetAllUsers"

\* ------------------------------------------------------------------------
\* Claims about the order of the gate's stages
\* ------------------------------------------------------------------------
GateServed == out.op = "ServeHTTP"
RoleStageAnswered == GateServed /\ out.res.by = "AdminOrSuperAdminMiddleware"
\* the authenticate stage accepted the request's header at the request's time
Authenticated ==
    /\ HasBearerPrefix(out.header)
    /\ ValidateToken(out.header.cred, out.now).err = NoErr

\* C25: in the gate of SetupRoutes the role check answers only a request
\* whose token the authenticate stage accepted, so that a role is attached;
\* no request is answered 500 "User role not found in context", and a
\* protected route's handler runs only behind both stages.
C25_AuthenticateFirst ==
    GateServed =>
        /\ ~(out.res.status = 500 /\ out.res.message = "User role not found in context")
        /\ RoleStageAnswered =>
              /\ Authenticated
              /\ ValidateToken(out.header.cred, out.now).claims.Role # NoRole
              /\ out.res.status = 403
        /\ (out.res.by = "handler" /\ out.method # "OPTIONS"
               /\ out.path \notin PublicPaths) =>
              /\ Authenticated
              /\ ValidateToken(out.header.cred, out.now).claims.Role
                    \in {RoleAdmin, RoleSuperAdmin}

C25_Witness ==
    /\ RoleStageAnswered
    /\ Authenticated
    /\ out.res.status = 403
    /\ out.path = "/users"

\* ------------------------------------------------------------------------
\* Claims about the roles carried by the service's own tokens
\* ------------------------------------------------------------------------
GateRoles == {RoleAdmin, RoleSuperAdmin}
Produced == out.op \in {"GenerateToken", "RefreshToken"} /\ out.res.err = NoErr
\* the protected routes as the bearer of token tok finds them at the current time
GateAnswers(tok) ==
    {ServeHTTP(r.method, r.path, [scheme |-> BearerPrefix, cred |-> tok], clock, TRUE) :
        r \in {[method |-> "GET", path |-> "/enquiries"],
               [method |-> "GET", path |-> "/users"],
               [method |-> "GET", path |-> "/email/test"]}}

\* C26: every token returned by GenerateToken or by RefreshToken, and every
\* token handed out so far (refreshed any number of times), carries the role
\* admin or super-admin; a protected route reached with a handed-out token
\* that still validates is never answered 403.
C26_IssuedRoles ==
    /\ Produced =>
          /\ out.res.claims.Role \in GateRoles
          /\ UnmarshalClaims(out.res.token.payload).Role \in GateRoles
    /\ \A h \in issued :
          /\ h.claims.Role \in GateRoles
          /\ ValidateToken(h.token, clock).err = NoErr =>
                \A a \in GateAnswers(h.token) : a.status # 403
    /\ (out.op = "ServeHTTP" /\ out.header.cred \in IssuedTokens) => out.res.status # 403

C26_Witness ==
    /\ out.op = "RefreshToken"
    /\ out.res.err = NoErr
    /\ out.res.claims.Role = RoleSuperAdmin
    /\ out.token \in IssuedTokens
    /\ out.res.token \in IssuedTokens
    /\ out.res.token # out.token
    /\ \A a \in GateAnswers(out.res.token) : a.by = "handler"

\* ------------------------------------------------------------------------
\* Tokens that outlive a change of their user: users sign in, their records
\* are then edited in the database, and the tokens are presented to the gate
\* ------------------------------------------------------------------------
\* the store after POST /create-user for an admin and for a super-admin
TwoUsers ==
    LET body(e, r) == [transport |-> "json", first_name |-> "Jo", last_name |-> "Doe",
                       email |-> e, password |-> Password, role |-> r]
        first == CreateUserResponse(<<>>, body(EmailAbXCom, RoleAdmin), 0, NoFailure)
    IN  CreateUserResponse(first.store, body(EmailDotted, RoleSuperAdmin), 0,
                           NoFailure).store

\* POST /auth/signin with the right password; the client keeps the token
SignInKept ==
    /\ out = Idle
    /\ clock = 0
    /\ Cardinality(issued) < MaxTokens
    /\ \E e \in {EmailAbXCom, EmailDotted}, p \in {Password, OtherPassword} :
          \E req \in {[transport |-> "json", email |-> e, password |-> p]} :
          \E r \in {SignInResponse(users, req, NoFailure, clock, clock)} :
             /\ users' = r.store
             /\ issued' = IF r.res.status = 200
                          THEN issued \cup
                               {[token |-> r.res.data.token,
                                 claims |-> UnmarshalClaims(r.res.data.token.payload)]}
                          ELSE issued
             /\ out' = [op |-> "SignIn", req |-> req, failing |-> NoFailure,
                        before |-> users, calls |-> r.calls, res |-> r.res]
    /\ UNCHANGED <<clock, procs, email, derived, enquiries>>

\* a stored user is edited in the database: deactivated, given another
\* role, or removed (UserService.UpdateUser and DeleteUser, which no route
\* calls, or the database shell)
StoreEdit ==
    /\ out = Idle
    /\ \E i \in DOMAIN users :
          \/ /\ users[i].IsActive
             /\ users' = [users EXCEPT ![i].IsActive = FALSE]
          \/ \E r \in {RoleAdmin, "viewer"} :
                /\ users[i].Role # r
                /\ users[i].Role # "viewer"
                /\ users' = [users EXCEPT ![i].Role = r]
          \/ users' = [k \in 1..(Len(users) - 1) |->
                         IF k < i THEN users[k] ELSE users[k + 1]]
    /\ UNCHANGED <<clock, issued, out, procs, email, derived, enquiries>>

InitStale ==
    /\ clock = 0
    /\ issued = {}
    /\ out = Idle
    /\ users = TwoUsers
    /\ procs = <<>>
    /\ email = <<>>
    /\ derived = NotRun
    /\ enquiries = <<>>

NextStale == SignInKept \/ StoreEdit \/ BearerRequest \/ Tick \/ Return

SpecStale == InitStale /\ [][NextStale]_vars

\* the stored user a token was issued to, as the store holds it now
HolderOf(tok) == {i \in DOMAIN users : users[i].Email = tok.payload.email}
\* the holder's record is gone, deactivated, or carries another role
HolderChanged(tok) ==
    \A i \in HolderOf(tok) : ~users[i].IsActive \/ users[i].Role # tok.payload.role

\* C27: the gate's answer to a request is a function of the method, the
\* path, the Authorization header and the time alone: a handed-out token
\* is let through to the handler with the role it was signed with at every
\* time from its not-before up to its expiry, whatever the store now holds
\* for its user (deactivated, other role, or no record), and is answered 401
\* outside that time.
C27_GateIgnoresStore ==
    (out.op = "ServeHTTP" /\ out.header.cred \in IssuedTokens) =>
        LET p == out.header.cred.payload
            inForce == p.nbf <= out.now /\ out.now < p.exp
        IN /\ inForce => /\ out.res.by = "handler"
                          /\ out.res.status = 200
                          /\ p.role \in {RoleAdmin, RoleSuperAdmin}
           /\ ~inForce => out.res.status = 401

C27_Witness ==
    /\ out.op = "ServeHTTP"
    /\ out.header.cred \in IssuedTokens
    /\ out.now > 0
    /\ out.res.by = "handler"
    /\ HolderOf(out.header.cred) = {}
    /\ \E h \in issued : h.token # out.header.cred /\ HolderOf(h.token) # {}
                            /\ HolderChanged(h.token)

\* ------------------------------------------------------------------------
\* A listing with submissions running beside it. GetAllEnquiries reads the
\* collection twice, with Find and then with CountDocuments, under no
\* transaction; POST /enquiry requests are served between the two reads.
\* procs holds the listing in flight and the collection as its Find read it.
\* ------------------------------------------------------------------------
\* GET /enquiries up to the return of Find and cursor.All
ListFind ==
    /\ out = Idle
    /\ procs = <<>>
    /\ \E req \in ListRequests : \E ties \in {"first", "last"} :
          \E r \in {GetAllEnquiriesResponseBetween(enquiries, enquiries, req, ties,
                                                     NoFailure)} :
              IF r.calls = <<"Find">>
              THEN /\ out' = [op |-> "GetAllEnquiries", req |-> req, ties |-> ties,
                              failing |-> NoFailure, call |-> r.call,
                              find |-> r.find, calls |-> r.calls, res |-> r.res]
                   /\ procs' = procs
              ELSE /\ procs' = <<[pc |-> "CountDocuments", req |-> req,
                                  ties |-> ties, seen |-> enquiries]>>
                   /\ out' = out
    /\ UNCHANGED <<clock, issued, users, email, derived, enquiries>>

\* the rest of the request: CountDocuments on the collection as it is now,
\* the pagination arithmetic, and the response
ListCount ==
    /\ out = Idle
    /\ procs # <<>>
    /\ \E p \in {procs[1]} :
       \E r \in {GetAllEnquiriesResponseBetween(p.seen, enquiries, p.req, p.ties,
                                                NoFailure)} :
           out' = [op |-> "GetAllEnquiries", req |-> p.req, ties |-> p.ties,
                   failing |-> NoFailure, call |-> r.call, find |-> r.find,
                   calls |-> r.calls, res |-> r.res, seen |-> p.seen]
    /\ procs' = <<>>
    /\ UNCHANGED <<clock, issued, users, email, derived, enquiries>>

InitListing ==
    /\ enquiries \in EarlierEnquiries
    /\ clock = 0
    /\ issued = {}
    /\ out = Idle
    /\ users = <<>>
    /\ procs = <<>>
    /\ email = <<>>
    /\ derived = NotRun

NextListing == ListFind \/ PostEnquiry \/ ListCount \/ Return

SpecListing == InitListing /\ [][NextListing]_vars

\* C28: in every list response the number of items is
\* min(limit, max(0, totalCount - skip)) for the total count the same
\* response reports, also when enquiries are submitted while the listing
\* is served.
C28_ItemsMatchCount ==
    ListedOk =>
        /\ IsSmall(out.res.data.pagination.total_count)
        /\ Len(Items) = PageLength(Small(out.res.data.pagination.total_count),
                                   out.find.skip, out.find.limit)

\* ------------------------------------------------------------------------
\* Paging through a collection that does not change: the enquiries were
\* submitted one per millisecond, and only GET /enquiries is served
\* ------------------------------------------------------------------------
Spread(n) ==
    [i \in 1..n |->
        [Backlog(n)[i] EXCEPT !.CreatedAt = <<StartOfClock[1], i - 1>>,
                              !.UpdatedAt = <<StartOfClock[1], i - 1>>]]

DistinctStores == {Spread(n) : n \in {0, 1, BacklogLen - 1, BacklogLen}}

InitPages ==
    /\ enquiries \in DistinctStores
    /\ clock = 0
    /\ issued = {}
    /\ out = Idle
    /\ users = <<>>
    /\ procs = <<>>
    /\ email = <<>>
    /\ derived = NotRun

NextPages == GetEnquiries \/ Return

SpecPages == InitPages /\ [][NextPages]_vars

DistinctTimes ==
    \A i \in DOMAIN enquiries : \A j \in DOMAIN enquiries :
       i # j => enquiries[i].CreatedAt # enquiries[j].CreatedAt

\* the place of a matching enquiry among the matching ones, newest first
RankOf(i) ==
    1 + Cardinality({j \in SatisfyingSet :
                        Before(enquiries[i].CreatedAt, enquiries[j].CreatedAt)})

Ranked(r) == enquiries[CHOOSE i \in SatisfyingSet : RankOf(i) = r]

PagesOf(total, limit) == CHOOSE n \in 0..total : IsCeil(n, total, limit)

\* C29: on an unchanging collection with distinct creation timestamps,
\* page p of 1..totalPages holds the matching enquiries of rank
\* (p-1)*limit+1 .. p*limit, newest first (so the pages together hold
\* every matching enquiry exactly once, and every page before the last
\* holds exactly limit items), and every page greater than totalPages
\* holds no items.
C29_PagesCover ==
    (ListedOk /\ DistinctTimes) =>
       LET total == Cardinality(SatisfyingSet)
           limit == Small(out.call.limit)
           totalPages == PagesOf(total, limit)
           page == out.call.page
       IN  IF IsSmall(page) /\ Small(page) <= totalPages
           THEN LET first == (Small(page) - 1) * limit
                    length == IF Small(page) < totalPages THEN limit
                              ELSE total - first
                IN  Items = [k \in 1..length |-> Ranked(first + k)]
           ELSE Items = <<>>

\* ------------------------------------------------------------------------
\* Users created one after the other from emails whose local parts are
\* long, short, or made of runes the derivation drops, on a few domains, so
\* that derived usernames collide
\* ------------------------------------------------------------------------
MaxNamed == 3

\* "a" 29, 30 and 31 times, "Z_9.", "é" and "ab"
NameLocals ==
    {Run(97, n) : n \in 29..31} \cup {<<90, 95, 57, 46>>, <<233>>, <<97, 98>>}

\* "@x.io" and "@y.io"
NameDomains == {<<64, 120, 46, 105, 111>>, <<64, 121, 46, 105, 111>>}

\* UserService.CreateUser, called when the one before it has returned
CreateInTurn ==
    /\ Len(users) < MaxNamed
    /\ \E local \in NameLocals, domain \in NameDomains,
          failing \in FailingCalls \cup {NoFailure} :
          \E res \in {CreateUserAlone(users,
                                      [Email |-> local \o domain, Username |-> <<>>,
                                       Password |-> Password, Role |-> RoleAdmin,
                                       IsActive |-> FALSE, LastLogin |-> NoLastLogin,
                                       CreatedAt |-> ZeroTime, UpdatedAt |-> ZeroTime],
                                      clock, failing)} :
             /\ users' = res.store
             /\ procs' = <<[pc |-> "done", user |-> res.user,
                            originalUsername |-> res.originalUsername,
                            counter |-> res.counter, err |-> res.err]>>
    /\ UNCHANGED <<clock, issued, out, email, derived, enquiries>>

InitNames ==
    /\ users = <<>>
    /\ procs = <<>>
    /\ clock = 0
    /\ issued = {}
    /\ out = Idle
    /\ email = <<>>
    /\ derived = NotRun
    /\ enquiries = <<>>

NextNames == CreateInTurn

SpecNames == InitNames /\ [][NextNames]_vars

UsernameRunes == (97..122) \cup (48..57) \cup {95}

\* C30: every username stored by CreateUser, also one that was given a
\* collision suffix, is non-empty, is made of lowercase ASCII letters,
\* digits and underscore only, and has at most 30 characters.
C30_StoredUsernames ==
    \A i \in DOMAIN users :
       /\ users[i].Username # <<>>
       /\ \A k \in DOMAIN users[i].Username : users[i].Username[k] \in UsernameRunes
       /\ Len(users[i].Username) <= 30
====
